---- MODULE Spec2Model ----
(***************************************************************************)
(* AURA frontend: the HTTP client (api.js), the session store (auth.js),   *)
(* the header's logout, the public form pages and the gate of every page   *)
(* controller, as one state machine over the browser's localStorage, the   *)
(* loaded page and the requests in flight.                                 *)
(*                                                                         *)
(* JavaScript values are strings here: None stands for undefined / null /  *)
(* a missing key, "" is the empty string, and object keys (role ids) are   *)
(* the strings JavaScript coerces them to.                                 *)
(***************************************************************************)
EXTENDS Integers, Sequences, FiniteSets, TLC

VARIABLES
  appBase,      \* the sub-path the app is served under (fixed for a run)
  storage,      \* localStorage: the four keys of STORAGE_KEYS
  page,         \* the page whose scripts are loaded ("none" before any page)
  pathname,     \* window.location.pathname, as its segments
  running,      \* TRUE when the page's script ran past its gate (handlers registered)
  href,         \* the last URL assigned to window.location.href, <<>> if none on this page
  loadSession,  \* token and role that storage held when the page's script started
  pageReqs,     \* number of request() calls made on this page so far
  inflight,     \* request() calls awaiting fetch
  settledIds,   \* ids of the calls of this page that have settled
  lastSettled,  \* the response and outcome of the last settled call
  loading,      \* the form's submit button is disabled (setLoading(true))
  fieldErrors,  \* form fields flagged is-invalid by validate()
  formMessage,  \* the text of the form's error / message banner, None when hidden
  query,        \* the token parameter of the page's URL ("" when it has none)
  timer,        \* TRUE while the reset page's redirect timer is pending
  granted,      \* history: the data of the last response setAuthFromResponse accepted
  lastOp,       \* the handler that made the last step
  pageError,    \* the error text a controller's page shows, None when it shows none
  loadFailed,   \* TRUE once a call of the controller's load has been rejected
  unhandled,    \* TRUE once a promise of the page was rejected with no handler attached
  fields,       \* the values of the form's inputs as the last submit read them
  table,        \* the container as AuraTable.render last filled it
  clicked,      \* the pager item last clicked and the onPageChange calls the click made
  bootstrap,    \* TRUE when window.bootstrap (Toast, Modal) is defined
  toasts,       \* the toast container(s) of the document and the toast nodes in it
  modal,        \* the modal node(s), modalEl, its hidden listeners and the last dismissal
  spinner,      \* the spinner overlay(s) and the overlay variable
  ctl           \* the local variables and the rendered lists of the page controllers

vars == <<appBase, storage, page, pathname, running, href, loadSession, pageReqs, inflight,
          settledIds, lastSettled, loading, fieldErrors, formMessage, query, timer,
          granted, lastOp, pageError, loadFailed, unhandled, fields, table, clicked,
          bootstrap, toasts, modal, spinner, ctl>>

\* the session, the page and its requests: what the page scripts act on
appVars == <<appBase, storage, page, pathname, running, href, loadSession, pageReqs, inflight,
             settledIds, lastSettled, loading, fieldErrors, formMessage, query, timer,
             granted, lastOp, pageError, loadFailed, unhandled, fields>>

\* the shared components' part of the document
uiVars == <<table, clicked, bootstrap, toasts, modal, spinner, ctl>>

\* the table apart from the other components, and the reverse
tableVars == <<table, clicked>>
widgetVars == <<bootstrap, toasts, modal, spinner>>

None == "<absent>"

\* JavaScript truthiness of a string-or-missing value
Truthy(x) == x # None /\ x # ""

(***************************************************************************)
(* Bounds of the model                                                     *)
(***************************************************************************)
\* requests a running page may issue from its handlers and continuations,
\* beyond those its load issues
MaxEvents == 1

(***************************************************************************)
(* Response bodies                                                         *)
(***************************************************************************)
\* data.errors of a 422 body: absent, a string, or an object field -> messages
NoErrors == [kind |-> "absent", text |-> "", values |-> <<>>]
ErrorsString(s) == [kind |-> "string", text |-> s, values |-> <<>>]
ErrorsObject(vals) == [kind |-> "object", text |-> "", values |-> vals]

\* the fields setAuthFromResponse reads, at top level or inside the data envelope
NoAuthFields == [access_token |-> None, account_id |-> None, email |-> None,
                 role_id |-> None, clinic_id |-> None]
AuthFields(t, a, e, r, c) == [access_token |-> t, account_id |-> a, email |-> e,
                              role_id |-> r, clinic_id |-> c]

\* the `data` member of a body: missing, JSON null, or an object
NoEnvelope == [kind |-> "absent", fields |-> NoAuthFields]
Envelope(f) == [kind |-> "object", fields |-> f]

\* a response body as sent: not JSON at all, JSON null, or a JSON object
Body(k, m, e, errs, top, env) ==
  [kind |-> k, message |-> m, error |-> e, errors |-> errs, top |-> top, data |-> env]
EmptyObject == Body("object", None, None, NoErrors, NoAuthFields, NoEnvelope)
NotJson == Body("nojson", None, None, NoErrors, NoAuthFields, NoEnvelope)
JsonNull == Body("null", None, None, NoErrors, NoAuthFields, NoEnvelope)

(***************************************************************************)
(* api.js                                                                  *)
(***************************************************************************)
API_BASE == "http://localhost:9999"

MsgInvalidData == "Du lieu khong hop le."
MsgReLogin == " Vui long dang nhap lai."
MsgWrongCredentials == "Email hoac mat khau khong dung."
MsgDuplicateEmail == "Email nay da duoc dang ky."
MsgNotImplemented == "Chuc nang dang duoc cap nhat."
MsgServerError == "Loi may chu. Vui long thu lai sau."
MsgRequestFailed == "Yeu cau that bai. Vui long thu lai."
MsgNoConnection ==
  "Khong the ket noi may chu. Kiem tra backend da chay tai " \o API_BASE \o " chua."
\* what the engine reports for `data.message` when data is null
MsgTypeError == "Cannot read properties of null (reading 'message')"

\* messages for which indexOf('token') or indexOf('Authentication') is not -1
TokenMessages == {"Invalid token", "Authentication required"}

\* getHeaders that attaches the stored token whatever includeAuth is
getHeaders_AlwaysAuth(includeAuth, st) ==
  [contentType |-> "application/json",
   authorization |-> IF Truthy(st.token) THEN "Bearer " \o st.token ELSE None]

\* getHeaders(includeAuth): the headers of a request, read from storage now
getHeaders(includeAuth, st) ==
  [contentType |-> "application/json",
   authorization |-> IF includeAuth /\ Truthy(st.token)
                     THEN "Bearer " \o st.token ELSE None]

RECURSIVE Flat(_)
\* Object.values(err).flat()
Flat(vals) == IF vals = <<>> THEN <<>> ELSE Head(vals) \o Flat(Tail(vals))

RECURSIVE Join(_, _)
\* parts.join(sep)
Join(parts, sep) ==
  IF parts = <<>> THEN ""
  ELSE IF Len(parts) = 1 THEN parts[1]
  ELSE parts[1] \o sep \o Join(Tail(parts), sep)

\* the truthiness of data.errors: {} and [] are truthy, '' is not
ErrorsTruthy(errs) ==
  errs.kind = "object" \/ (errs.kind = "string" /\ errs.text # "")

\* the result of a function that may throw: the Error it returns the text of,
\* or the TypeError the engine raises
Returned(msg) == [name |-> "Error", message |-> msg]
Thrown(msg) == [name |-> "TypeError", message |-> msg]

\* `data.message || fallback`, reached with data an object or null
MessageOr(data, fallback) ==
  IF data.kind = "null" THEN Thrown(MsgTypeError)
  ELSE IF Truthy(data.message) THEN Returned(data.message)
  ELSE Returned(fallback)

\* parseErrorMessage with the status branches placed before the body's message
parseErrorMessage_StatusFirst(status, data) ==
  IF status = 401 THEN Returned(MsgWrongCredentials)
  ELSE IF status = 409 THEN Returned(MsgDuplicateEmail)
  ELSE IF status = 422 THEN Returned(MsgInvalidData)
  ELSE IF status = 501 THEN Returned(MsgNotImplemented)
  ELSE IF data.kind = "object" /\ Truthy(data.message) THEN Returned(data.message)
  ELSE IF data.kind = "object" /\ Truthy(data.error) THEN Returned(data.error)
  ELSE MessageOr(data, IF status >= 500 THEN MsgServerError ELSE MsgRequestFailed)

\* parseErrorMessage(res, data)
parseErrorMessage(status, data) ==
  IF data.kind = "object" /\ Truthy(data.message) THEN Returned(data.message)
  ELSE IF data.kind = "object" /\ Truthy(data.error) THEN Returned(data.error)
  ELSE IF status = 422 /\ data.kind = "object" /\ ErrorsTruthy(data.errors) THEN
    LET err == data.errors
        parts == IF err.kind = "object" THEN Flat(err.values) ELSE <<err.text>>
        text == Join(SelectSeq(parts, Truthy), ". ")
    IN Returned(IF text # "" THEN text ELSE MsgInvalidData)
  ELSE IF status = 401 THEN
    IF data.kind = "object" /\ Truthy(data.message) /\ data.message \in TokenMessages
    THEN Returned(data.message \o MsgReLogin)
    ELSE Returned(MsgWrongCredentials)
  ELSE IF status = 409 THEN Returned(MsgDuplicateEmail)
  ELSE IF status = 501 THEN MessageOr(data, MsgNotImplemented)
  ELSE IF status >= 500 THEN MessageOr(data, MsgServerError)
  ELSE MessageOr(data, MsgRequestFailed)

\* res.ok
ResOk(status) == status >= 200 /\ status <= 299

\* res.json().catch(() => ({}))
ParseJson(body) == IF body.kind = "nojson" THEN EmptyObject ELSE body

Resolved(data) == [kind |-> "resolved", data |-> data, error |-> None, message |-> None]
Rejected(e) == [kind |-> "rejected", data |-> EmptyObject, error |-> e.name,
                message |-> e.message]

\* request() that returns the body whatever the status
requestSettle_NoOkCheck(resp) ==
  IF ~resp.fetchOk THEN Rejected(Returned(MsgNoConnection))
  ELSE Resolved(ParseJson(resp.body))

\* request(), from the fetch's settling on: how the call settles for a response
requestSettle(resp) ==
  IF ~resp.fetchOk THEN Rejected(Returned(MsgNoConnection))
  ELSE LET data == ParseJson(resp.body) IN
       IF ~ResOk(resp.status) THEN Rejected(parseErrorMessage(resp.status, data))
       ELSE Resolved(data)

\* request(), up to the fetch: the call as sent
requestSend(id, api, method, hasBody, useAuth, st) ==
  [id |-> id, api |-> api, method |-> method,
   headers |-> getHeaders(useAuth, st),
   body |-> hasBody /\ method \in {"POST", "PUT", "PATCH"}]

(***************************************************************************)
(* config.js and auth.js                                                   *)
(***************************************************************************)
\* STORAGE_KEYS, as config.js sets them (REFRESH_TOKEN is a key of it)
StorageKeys == {"token", "refresh", "user", "role"}

\* a stored user record, and the user key missing
NoUser == [present |-> FALSE, account_id |-> None, email |-> None,
           role_id |-> None, clinic_id |-> None]
User(a, e, r, c) == [present |-> TRUE, account_id |-> a, email |-> e,
                     role_id |-> r, clinic_id |-> c]

\* getUser(): JSON.parse of what setAuth stored with JSON.stringify
getUser(st) == st.user

\* getRole()
getRole(st) == IF st.role = None THEN "" ELSE st.role

\* setAuth(token, user, role)
setAuth(token, user, role, st) ==
  [st EXCEPT !.token = IF Truthy(token) THEN token ELSE @,
             !.user = IF user.present THEN user ELSE @,
             !.role = IF Truthy(role) THEN role ELSE @]

\* clearAuth that leaves the role key behind
clearAuth_KeepRole(st) ==
  [st EXCEPT !.token = None, !.refresh = None, !.user = NoUser]

\* clearAuth()
clearAuth(st) ==
  [st EXCEPT !.token = None,
             !.refresh = IF "refresh" \in StorageKeys THEN None ELSE @,
             !.user = NoUser,
             !.role = None]

\* isLoggedIn()
isLoggedIn(st) == Truthy(st.token)

\* the path segments after which getLoginPageUrl steps up two levels
RoleSegments == {"patient", "doctor", "admin", "clinic"}

NonEmpty(s) == s # ""

\* getLoginPageUrl(): the URL's path segments after the origin
getLoginPageUrl(path) ==
  LET segments == SelectSeq(path, NonEmpty)
      n == Len(segments)
  IN IF n >= 2 /\ segments[n - 1] \in RoleSegments
     THEN SubSeq(segments, 1, n - 2) \o <<"login.html">>
     ELSE IF n >= 1 THEN SubSeq(segments, 1, n - 1) \o <<"login.html">>
     ELSE <<"login.html">>

\* the role -> dashboard table of requireRole and redirectByRole, || 'index.html'
DashboardOf(role) ==
  CASE role = "Patient" -> <<"patient", "dashboard.html">>
    [] role = "Doctor" -> <<"doctor", "dashboard.html">>
    [] role = "ClinicManager" -> <<"clinic", "dashboard.html">>
    [] role = "Admin" -> <<"admin", "dashboard.html">>
    [] OTHER -> <<"index.html">>

\* pathname.replace(/\/[^/]*$/, ''): the path without its last segment
DropLast(path) == IF path = <<>> THEN <<>> ELSE SubSeq(path, 1, Len(path) - 1)

\* .replace(/\/[^/]+$/, ''): the same, when the last segment is not empty
DropLastNonEmpty(path) ==
  IF path # <<>> /\ path[Len(path)] # "" THEN DropLast(path) ELSE path

\* what a gate answers: whether the script goes on, and the URL it navigated to
GateResult(ok, url) == [ok |-> ok, href |-> url]

\* requireLogin that lets every session through
requireLogin_Open(st, path) == GateResult(TRUE, <<>>)

\* requireLogin(): no caller passes loginUrl
requireLogin(st, path) ==
  IF ~isLoggedIn(st) THEN GateResult(FALSE, getLoginPageUrl(path))
  ELSE GateResult(TRUE, <<>>)

\* requireRole that sends a mismatched session to the dashboard it asked for
requireRole_AllowedDashboard(allowedRole, st, path) ==
  IF ~requireLogin(st, path).ok THEN requireLogin(st, path)
  ELSE IF getRole(st) # allowedRole
       THEN GateResult(FALSE, DropLastNonEmpty(DropLast(path)) \o DashboardOf(allowedRole))
       ELSE GateResult(TRUE, <<>>)

\* requireRole(allowedRole)
requireRole(allowedRole, st, path) ==
  IF ~requireLogin(st, path).ok THEN requireLogin(st, path)
  ELSE LET role == getRole(st) IN
       IF role # allowedRole
       THEN LET parent == DropLastNonEmpty(DropLast(path))
                rel == DashboardOf(role)
            IN GateResult(FALSE, parent \o rel)
       ELSE GateResult(TRUE, <<>>)

\* getRoleNameByRoleId(roleId)
getRoleNameByRoleId(roleId) ==
  CASE roleId = "1" -> "Admin"
    [] roleId = "2" -> "Doctor"
    [] roleId = "3" -> "Patient"
    [] roleId = "4" -> "ClinicManager"
    [] OTHER -> ""

\* the object setAuthFromResponse reads: the data envelope when truthy, else the
\* response itself; absent when the response is null
AuthDataOf(responseData) ==
  IF responseData.kind = "null" THEN [present |-> FALSE, fields |-> NoAuthFields]
  ELSE IF responseData.data.kind = "object"
       THEN [present |-> TRUE, fields |-> responseData.data.fields]
       ELSE [present |-> TRUE, fields |-> responseData.top]

\* setAuthFromResponse(responseData): what it returns and what storage holds after
setAuthFromResponse(responseData, st) ==
  LET d == AuthDataOf(responseData)
      data == d.fields
  IN IF ~d.present \/ ~Truthy(data.access_token)
     THEN [ret |-> FALSE, storage |-> st]
     ELSE LET user == User(data.account_id, data.email, data.role_id, data.clinic_id)
              roleName == getRoleNameByRoleId(data.role_id)
          IN [ret |-> TRUE, storage |-> setAuth(data.access_token, user, roleName, st)]

\* redirectByRole(): the URL it navigates to
redirectByRole(st, path) == DropLast(path) \o DashboardOf(getRole(st))

(***************************************************************************)
(* The page controllers: the gate that opens each script, the member of    *)
(* the stored user its load needs, and the calls its load makes at once    *)
(***************************************************************************)
\* gate: None for requireLogin(), else the role given to requireRole
Controller(name, area, file, gate, key, calls) ==
  [name |-> name, area |-> area, file |-> file, gate |-> gate, key |-> key,
   calls |-> calls]

PatientUpload ==
  Controller("patient-upload", "patient", "upload.html", None, "account_id",
             <<"getPatientByAccount">>)
PatientReports ==
  Controller("patient-reports", "patient", "reports.html", None, "account_id",
             <<"getPatientByAccount">>)
PatientProfile ==
  Controller("patient-profile", "patient", "profile.html", None, "account_id",
             <<"getPatientByAccount">>)
PatientMyImages ==
  Controller("patient-my-images", "patient", "my-images.html", None, "account_id",
             <<"getPatientByAccount">>)
PatientAnalysis ==
  Controller("patient-analysis", "patient", "analysis.html", None, "account_id",
             <<"getPatientByAccount">>)
PatientDashboard ==
  Controller("patient-dashboard", "patient", "dashboard.html", None, "account_id",
             <<"getPatientByAccount">>)
DoctorCreateReport ==
  Controller("doctor-create-report", "doctor", "create-report.html", "Doctor",
             "account_id", <<"getDoctorByAccount">>)
DoctorDashboard ==
  Controller("doctor-dashboard", "doctor", "dashboard.html", "Doctor", "account_id",
             <<"getDoctorByAccount">>)
DoctorMessages ==
  Controller("doctor-messages", "doctor", "messages.html", "Doctor", "account_id",
             <<"getDoctorByAccount">>)
DoctorReviews ==
  Controller("doctor-reviews", "doctor", "reviews.html", "Doctor", "account_id",
             <<"getDoctorByAccount">>)
DoctorPatients ==
  Controller("doctor-patients", "doctor", "patients.html", "Doctor", None,
             <<"searchPatients">>)
DoctorProfile ==
  Controller("doctor-profile", "doctor", "profile.html", "Doctor", "account_id",
             <<"getDoctorByAccount">>)
ClinicAnalytics ==
  Controller("clinic-analytics", "clinic", "analytics.html", "ClinicManager",
             "clinic_id", <<"getClinicRiskAggregation", "getClinicAbnormalTrends">>)
ClinicExport ==
  Controller("clinic-export", "clinic", "export.html", "ClinicManager", "clinic_id",
             <<>>)
ClinicReports ==
  Controller("clinic-reports", "clinic", "reports.html", "ClinicManager", "clinic_id",
             <<"getClinicReportsSummary", "getClinicScreeningReport">>)
ClinicImages ==
  Controller("clinic-images", "clinic", "images.html", "ClinicManager", "clinic_id",
             <<"getImagesByClinic">>)
ClinicMembers ==
  Controller("clinic-members", "clinic", "members.html", "ClinicManager", "clinic_id",
             <<"getClinicMembers">>)
ClinicPatients ==
  Controller("clinic-patients", "clinic", "patients.html", "ClinicManager",
             "clinic_id", <<"getAssignedPatients">>)
ClinicUsage ==
  Controller("clinic-usage", "clinic", "usage.html", "ClinicManager", "clinic_id",
             <<"getClinicUsage">>)
ClinicDashboard ==
  Controller("clinic-dashboard", "clinic", "dashboard.html", "ClinicManager",
             "clinic_id",
             <<"getClinic", "getClinicMembers", "getClinicUsage",
               "getClinicReportsSummary", "getHighRiskAlerts">>)
ClinicProfile ==
  Controller("clinic-profile", "clinic", "profile.html", "ClinicManager", "clinic_id",
             <<"getClinic">>)
ClinicSubscriptions ==
  Controller("clinic-subscriptions", "clinic", "subscriptions.html", "ClinicManager",
             "account_id", <<"getSubscriptionsByAccount">>)
ClinicAlerts ==
  Controller("clinic-alerts", "clinic", "alerts.html", "ClinicManager", "clinic_id",
             <<"getHighRiskAlerts">>)

PatientPages ==
  {PatientUpload, PatientReports, PatientProfile, PatientMyImages, PatientAnalysis,
   PatientDashboard}
DoctorPages ==
  {DoctorCreateReport, DoctorDashboard, DoctorMessages, DoctorReviews, DoctorPatients,
   DoctorProfile}
ClinicPages ==
  {ClinicAnalytics, ClinicExport, ClinicReports, ClinicImages, ClinicMembers,
   ClinicPatients, ClinicUsage, ClinicDashboard, ClinicProfile, ClinicSubscriptions,
   ClinicAlerts}
Controllers == PatientPages \cup DoctorPages \cup ClinicPages
ControllerNames == {c.name : c \in Controllers}
ControllerOf(name) == CHOOSE c \in Controllers : c.name = name

\* the role whose area a controller's page lies in (the ROLES of config.js)
AreaRole(area) ==
  CASE area = "patient" -> "Patient"
    [] area = "doctor" -> "Doctor"
    [] area = "clinic" -> "ClinicManager"
    [] OTHER -> "Admin"

\* the pages without a gate, at the app's root
PublicPages == {"login", "register", "forgot-password", "reset-password"}

\* `user && user.account_id` / `user && user.clinic_id`, as the load tests it
KeyPresent(c, st) ==
  CASE c.key = "account_id" -> getUser(st).present /\ Truthy(getUser(st).account_id)
    [] c.key = "clinic_id" -> getUser(st).present /\ Truthy(getUser(st).clinic_id)
    [] OTHER -> TRUE

\* the first call of the patient and doctor controllers: the profile lookup
IsLookup(api) == api \in {"getPatientByAccount", "getDoctorByAccount"}

\* loadDoctor / loadDoctorThen of the create-report, messages and reviews
\* controllers return the lookup's promise and every call site drops it with no
\* .catch; every other controller ends its load chain with a .catch
LookupCaught(c) ==
  c.name \notin {"doctor-create-report", "doctor-messages", "doctor-reviews"}

\* the clinic dashboard makes its five calls inside one Promise.all, whose
\* single .catch runs for the first rejection only
JointLoad(c) == c.name = "clinic-dashboard"

\* what the pages show: no account or clinic in the stored user, no profile in
\* the lookup's answer, and the fallback of `err.message || '...'`
MsgNoAccount == "Khong tim thay tai khoan."
MsgNoProfile == "Chua co ho so."
MsgLoadFailed == "Tai du lieu that bai."

\* the gate at the top of a controller's script
Gate(c, st, path) ==
  IF c.gate = None THEN requireLogin(st, path) ELSE requireRole(c.gate, st, path)

(***************************************************************************)
(* The inputs the environment chooses                                      *)
(***************************************************************************)
\* the sub-paths the app is served under
Bases == {<<"aura">>}

Tokens == {"t1", "t2"}
\* role ids a backend may send: those of the table, one outside it, none
RoleIds == {"1", "2", "3", "4", "9", None}
\* account_id, email and clinic_id as they come together
Accounts == {<<"7", "a@b.c", "5">>, <<None, None, None>>}

\* every account and role id with the first token; a later token for one account
AcceptableFields ==
  {AuthFields("t1", a[1], a[2], r, a[3]) : a \in Accounts, r \in RoleIds}
  \cup {AuthFields(t, "7", "a@b.c", r, "5") : t \in Tokens, r \in {"2", None}}
TokenlessFields ==
  {AuthFields(t, "7", "a@b.c", "3", "5") : t \in {None, ""}}

Response(ok, status, body) == [fetchOk |-> ok, status |-> status, body |-> body]
FetchFailed == Response(FALSE, 0, NotJson)

\* what the backend may answer to login and register
EnvelopedFields ==
  {AuthFields(t, "7", "a@b.c", r, "5") : t \in {"t1", ""}, r \in {"3", "9"}}
AuthBodies ==
  {Body("object", None, None, NoErrors, f, NoEnvelope) :
     f \in AcceptableFields \cup TokenlessFields}
  \cup {Body("object", None, None, NoErrors, NoAuthFields, Envelope(f)) :
          f \in EnvelopedFields}
  \cup {Body("object", None, None, NoErrors, AuthFields("t1", "7", "a@b.c", "3", "5"),
             Envelope(NoAuthFields)),
        JsonNull, NotJson}
AuthResponses ==
  {Response(TRUE, 200, b) : b \in AuthBodies}
  \cup {Response(TRUE, 401, EmptyObject),
        Response(TRUE, 409, Body("object", "Email exists", None, NoErrors, NoAuthFields,
                                 NoEnvelope)),
        Response(TRUE, 500, Body("object", "Failed to fetch", None, NoErrors,
                                 NoAuthFields, NoEnvelope)),
        FetchFailed}

\* what the backend may answer to a page controller's call
PageResponses ==
  {Response(TRUE, 200, EmptyObject),
   Response(TRUE, 401, Body("object", "Invalid token", None, NoErrors, NoAuthFields,
                            NoEnvelope)),
   FetchFailed}

\* what the backend may answer to forgot-password and reset-password
PublicResponses ==
  {Response(TRUE, 200, EmptyObject),
   Response(TRUE, 404, Body("object", "Not Found", None, NoErrors, NoAuthFields,
                            NoEnvelope)),
   Response(TRUE, 400, Body("object", "m1", None, NoErrors, NoAuthFields, NoEnvelope)),
   FetchFailed}

\* the statuses and bodies request() is checked against
HttpStatuses == {200, 204, 304, 400, 401, 404, 409, 422, 500, 501, 503}
HttpMessages == {None, "", "m1"}
HttpErrorFields == {None, "e1"}
HttpErrors ==
  {NoErrors, ErrorsString("bad input"), ErrorsObject(<<>>),
   ErrorsObject(<<<<"email taken">>, <<"", "password short">>>>)}
HttpBodies ==
  {Body("object", m, e, errs, NoAuthFields, NoEnvelope) :
     m \in HttpMessages, e \in HttpErrorFields, errs \in HttpErrors}
  \cup {JsonNull, NotJson}
\* 204 and 304 come without a body
HttpResponses ==
  {Response(TRUE, s, b) : s \in HttpStatuses \ {204, 304}, b \in HttpBodies}
  \cup {Response(TRUE, s, NotJson) : s \in {204, 304}}
  \cup {FetchFailed}
HttpMethods == {"GET", "POST", "DELETE"}

\* what a user may type into the forms
EmailInputs == {"", "bad", " a@b.c "}
PasswordInputs == {"", "abc", "abcdef"}
RoleInputs == {"", "3"}
QueryTokens == {"", "rt"}

(***************************************************************************)
(* The form pages: login.js, register, forgot password, reset-password.js  *)
(***************************************************************************)
MsgInvalidResponse == "Phan hoi tu server khong hop le."
MsgLoginFailed == "Email hoac mat khau khong dung."
MsgRegisterFailed == "Dang ky that bai. Vui long thu lai."
MsgFormNoConnection ==
  "Khong the ket noi may chu. Kiem tra backend da chay tai http://localhost:9999 chua."
MsgForgotSent ==
  "Neu email ton tai, ban se nhan duoc huong dan dat lai mat khau qua email."
MsgForgotFailed == "Gui yeu cau that bai. Vui long thu lai."
MsgForgotUpdating ==
  "Chuc nang quen mat khau dang duoc cap nhat. Vui long lien he quan tri vien."
MsgResetDone ==
  "Dat lai mat khau thanh cong. Ban co the dang nhap bang mat khau moi."
MsgResetFailed == "Dat lai mat khau that bai. Vui long thu lai."
MsgResetUpdating ==
  "Chuc nang dat lai mat khau dang duoc cap nhat. Vui long lien he quan tri vien."
MsgResetBadLink ==
  "Link khong hop le hoac da het han. Vui long yeu cau dat lai mat khau moi."

\* String.prototype.trim on the inputs above
Trim(s) == IF s = " a@b.c " THEN "a@b.c" ELSE s

\* /^[^\s@]+@[^\s@]+\.[^\s@]+$/.test(email) on the inputs above
EmailPattern(email) == email \in {"a@b.c"}

\* msg.indexOf('Failed to fetch' | 'NetworkError' | 'Load failed') !== -1
MentionsFetchFailure(msg) == msg \in {"Failed to fetch"}
\* msg.indexOf('Khong the ket noi') !== -1
MentionsNoConnection(msg) == msg = MsgNoConnection
\* msg mentions '404', 'Not Found' or 'failed'
MentionsNotFound(msg) == msg \in {"Not Found"}

\* password.length of the inputs above
Length(s) == CASE s = "" -> 0 [] s = "abc" -> 3 [] s = "abcdef" -> 6 [] OTHER -> 1

\* validate() of login.js: the fields it flags
validateLogin(email, password) ==
  (IF Trim(email) = "" \/ ~EmailPattern(Trim(email)) THEN {"email"} ELSE {})
  \cup (IF password = "" THEN {"password"} ELSE {})

\* a validate() that returns at the first failing field
validateRegister_FirstOnly(email, password, confirm, roleId) ==
  IF Trim(email) = "" \/ ~EmailPattern(Trim(email)) THEN {"email"}
  ELSE IF Length(password) < 6 THEN {"password"}
  ELSE IF password # confirm THEN {"confirm"}
  ELSE IF roleId = "" THEN {"role"}
  ELSE {}

\* validate() of the register page
validateRegister(email, password, confirm, roleId) ==
  (IF Trim(email) = "" \/ ~EmailPattern(Trim(email)) THEN {"email"} ELSE {})
  \cup (IF Length(password) < 6 THEN {"password"} ELSE {})
  \cup (IF password # confirm THEN {"confirm"} ELSE {})
  \cup (IF roleId = "" THEN {"role"} ELSE {})

\* validate() of the forgot password page
validateForgot(email) ==
  IF Trim(email) = "" \/ ~EmailPattern(Trim(email)) THEN {"email"} ELSE {}

\* validate() of reset-password.js
validateReset(newPwd, confirm) ==
  (IF Length(newPwd) < 6 THEN {"password"} ELSE {})
  \cup (IF newPwd # confirm THEN {"confirm"} ELSE {})

\* the catch block of the login and register submit handlers
AuthCatchMessage(message, fallback) ==
  LET msg == IF Truthy(message) THEN message ELSE fallback
  IN IF MentionsFetchFailure(msg) THEN MsgFormNoConnection ELSE msg

\* the catch block of the forgot password submit handler
ForgotCatchMessage(message) ==
  LET msg == IF Truthy(message) THEN message ELSE MsgForgotFailed
  IN IF MentionsNoConnection(msg) \/ MentionsFetchFailure(msg) THEN MsgFormNoConnection
     ELSE IF MentionsNotFound(msg) THEN MsgForgotUpdating
     ELSE msg

\* the catch block of the reset password submit handler
ResetCatchMessage(message) ==
  IF Truthy(message) /\ MentionsNotFound(message) THEN MsgResetUpdating
  ELSE IF Truthy(message) THEN message
  ELSE MsgResetFailed

(***************************************************************************)
(* The state machine                                                       *)
(***************************************************************************)
(***************************************************************************)
(* components/spinner.js, AuraTable: the paginated table                   *)
(***************************************************************************)
\* the longest data array rendered
MaxLen == 11

Max(a, b) == IF a >= b THEN a ELSE b
Min(a, b) == IF a <= b THEN a ELSE b

\* an option as the caller passes it: a number, a non-numeric text, or left out
IntOpt(n) == [kind |-> "int", val |-> n]
TextOpt == [kind |-> "text", val |-> 0]
NoOpt == [kind |-> "absent", val |-> 0]

\* parseInt(x, 10): NaN for anything that is not a number
ParseInt(opt) ==
  IF opt.kind = "int" THEN [nan |-> FALSE, val |-> opt.val] ELSE [nan |-> TRUE, val |-> 0]

\* `parseInt(x, 10) || d`: NaN and 0 are falsy
OrDefault(parsed, d) == IF parsed.nan \/ parsed.val = 0 THEN d ELSE parsed.val

\* Math.ceil(total / pageSize), for total >= 0 and pageSize >= 1
Ceil(total, size) == (total + size - 1) \div size

\* Math.max(1, parseInt(opts.pageSize, 10) || 10)
pageSizeOf(opt) == Max(1, OrDefault(ParseInt(opt), 10))

\* Math.max(1, Math.ceil(total / pageSize))
totalPagesOf(total, size) == Max(1, Ceil(total, size))

\* a clamp with no upper end
currentPageOf_NoUpper(opt, pages) == Max(1, OrDefault(ParseInt(opt), 1))

\* Math.min(Math.max(1, parseInt(opts.currentPage, 10) || 1), totalPages)
currentPageOf(opt, pages) == Min(Max(1, OrDefault(ParseInt(opt), 1)), pages)

\* a slice that starts one page late
Slice_PageLate(data, start, end) ==
  LET len == Len(data)
      lo == Min(end, len)
      hi == Min(end + (end - start), len)
  IN IF lo >= hi THEN <<>> ELSE SubSeq(data, lo + 1, hi)

\* Array.prototype.slice(start, end): negative indices count from the end, both
\* are clamped to the array, items start .. end - 1 (0-based) are copied
Slice(data, start, end) ==
  LET len == Len(data)
      lo == IF start < 0 THEN Max(len + start, 0) ELSE Min(start, len)
      hi == IF end < 0 THEN Max(len + end, 0) ELSE Min(end, len)
  IN IF lo >= hi THEN <<>> ELSE SubSeq(data, lo + 1, hi)

\* the items of the pager's <ul>: an <a data-page> carries the click listeners
\* the render attached to it, the ellipsis <span> has no data-page and none
PageLink(label, p, disabled, active) ==
  [kind |-> label, page |-> p, disabled |-> disabled, active |-> active, listeners |-> 1]
Ellipsis ==
  [kind |-> "ellipsis", page |-> 0, disabled |-> TRUE, active |-> FALSE, listeners |-> 0]

\* a pager that puts an ellipsis after page 1 whenever the window starts later
Pager_EarlyEllipsis(pages, cur) ==
  IF pages <= 1 THEN <<>>
  ELSE LET from == Max(1, cur - 2)
           to == Min(pages, cur + 2)
       IN <<PageLink("prev", cur - 1, cur <= 1, FALSE)>>
          \o (IF from > 1 THEN <<PageLink("page", 1, FALSE, FALSE)>> ELSE <<>>)
          \o (IF from > 1 THEN <<Ellipsis>> ELSE <<>>)
          \o [i \in 1..(to - from + 1) |->
                PageLink("page", from + i - 1, FALSE, from + i - 1 = cur)]
          \o (IF to < pages - 1 THEN <<Ellipsis>> ELSE <<>>)
          \o (IF to < pages THEN <<PageLink("page", pages, FALSE, FALSE)>> ELSE <<>>)
          \o <<PageLink("next", cur + 1, cur >= pages, FALSE)>>

\* the <nav> of render: nothing for a single page
Pager(pages, cur) ==
  IF pages <= 1 THEN <<>>
  ELSE LET from == Max(1, cur - 2)
           to == Min(pages, cur + 2)
       IN <<PageLink("prev", cur - 1, cur <= 1, FALSE)>>
          \o (IF from > 1 THEN <<PageLink("page", 1, FALSE, FALSE)>> ELSE <<>>)
          \o (IF from > 2 THEN <<Ellipsis>> ELSE <<>>)
          \o [i \in 1..(to - from + 1) |->
                PageLink("page", from + i - 1, FALSE, from + i - 1 = cur)]
          \o (IF to < pages - 1 THEN <<Ellipsis>> ELSE <<>>)
          \o (IF to < pages THEN <<PageLink("page", pages, FALSE, FALSE)>> ELSE <<>>)
          \o <<PageLink("next", cur + 1, cur >= pages, FALSE)>>

\* the container after render(containerId, {data, pageSize, currentPage}), with
\* the options it was given
render(data, sizeOpt, pageOpt) ==
  LET pageSize == pageSizeOf(sizeOpt)
      totalPages == totalPagesOf(Len(data), pageSize)
      currentPage == currentPageOf(pageOpt, totalPages)
      start == (currentPage - 1) * pageSize
  IN [rendered |-> TRUE, data |-> data, sizeOpt |-> sizeOpt, pageOpt |-> pageOpt,
      pageSize |-> pageSize, totalPages |-> totalPages, currentPage |-> currentPage,
      start |-> start, pageData |-> Slice(data, start, start + pageSize),
      pager |-> Pager(totalPages, currentPage)]

\* the container before any render
NoTable ==
  [rendered |-> FALSE, data |-> <<>>, sizeOpt |-> NoOpt, pageOpt |-> NoOpt,
   pageSize |-> 0, totalPages |-> 0, currentPage |-> 0, start |-> 0, pageData |-> <<>>,
   pager |-> <<>>]

\* no pager item clicked since the last render from outside
NoClick == [item |-> Ellipsis, calls |-> <<>>, happened |-> FALSE]

\* the rows a page hands to the table: row i is told apart from its position
Rows(len) == [i \in 1..len |-> 100 + i]
SizeOpts == {IntOpt(n) : n \in {-1, 0, 1, 3}} \cup {TextOpt, NoOpt}
PageOpts == {IntOpt(n) : n \in {-1, 0, 1, 2, 5, MaxLen + 1}} \cup {TextOpt, NoOpt}

\* a click handler that does not look at the disabled class
onClick_IgnoreDisabled(a) ==
  [i \in 1..a.listeners |-> a.page]

\* the click listeners of one pager item, run for one click: each calls
\* onPageChange(p) unless the item is disabled
onClick(a) ==
  IF a.disabled THEN <<>> ELSE [i \in 1..a.listeners |-> a.page]

(***************************************************************************)
(* AuraAlert (toast), AuraModal and AuraSpinner: the singleton components  *)
(***************************************************************************)
\* toast() calls, and AuraModal.show calls, in one run
MaxToasts == 2
MaxShows == 2

\* the document before any toast: no container
NoToasts == [containers |-> 0, made |-> 0, nodes |-> {}]

\* the class toast() picks for a type
bgClassOf(type) ==
  CASE type = "success" -> "bg-success"
    [] type = "danger" -> "bg-danger"
    [] type = "warning" -> "bg-warning"
    [] OTHER -> "bg-info"

ToastTypes == {"success", None}

\* a lookup that creates a container on every call
getOrCreateContainer_Always(t) == [t EXCEPT !.containers = @ + 1]

\* getOrCreateContainer: the element with the container's id, created if the
\* document has none
getOrCreateContainer(t) ==
  IF t.containers > 0 THEN t ELSE [t EXCEPT !.containers = @ + 1]

\* the document before any modal: no node, modalEl null; lastHidden is the last
\* hidden.bs.modal event: the show that was displayed and the onClose calls made
NoHidden == [show |-> 0, hasOnClose |-> FALSE, calls |-> <<>>]
NoModal ==
  [nodes |-> 0, ref |-> FALSE, shows |-> 0, open |-> FALSE, hiding |-> FALSE,
   displayed |-> 0, displayedOnClose |-> FALSE, listeners |-> <<>>, lastHidden |-> NoHidden]

\* getOrCreate of modal.js: modalEl when it is set and still in the document
getOrCreate(m) ==
  IF m.ref /\ m.nodes > 0 THEN m ELSE [m EXCEPT !.nodes = @ + 1, !.ref = TRUE]

\* the onClose calls of the listeners of one hidden.bs.modal event, in the order
\* they were added: each listener calls the onClose of its own show, if any
RECURSIVE onHidden(_)
onHidden(listeners) ==
  IF listeners = <<>> THEN <<>>
  ELSE (IF Head(listeners).hasOnClose THEN <<Head(listeners).show>> ELSE <<>>)
       \o onHidden(Tail(listeners))

\* the document before any spinner: no overlay, the overlay variable null
NoSpinner == [overlays |-> 0, ref |-> FALSE, display |-> None]

(***************************************************************************)
(* The page controllers' own state: what each keeps in its closure and     *)
(* what it has rendered                                                    *)
(***************************************************************************)
\* the doctor's patients page before its script ran: no search issued, nothing
\* rendered
NoPatients == [issued |-> 0, inflight |-> {}, shown |-> [req |-> 0, kind |-> "none"]]

\* a profile page before its script ran. id is patientId / doctorId, saveDisabled
\* is btnSave.disabled; exists tells whether the backend holds a profile for the
\* account; creates and createdOverProfile record the create requests issued
NoProfilePage ==
  [kind |-> "none", exists |-> FALSE, id |-> None, saveDisabled |-> FALSE, issued |-> 0,
   inflight |-> {}, saves |-> 0, creates |-> 0, createdOverProfile |-> FALSE,
   updatedNoProfile |-> FALSE]

\* doctor/messages.html before its script ran. doctor is what loadDoctor has
\* learnt, current is currentConversationId.value (0 for the empty value), shown
\* is what messagesList holds, last is the step the page took last
NoMessagesPage ==
  [open |-> FALSE, doctor |-> "unknown", listed |-> FALSE, current |-> 0, sendDisabled |-> FALSE,
   issued |-> 0, inflight |-> {}, shown |-> [conv |-> 0, kind |-> "placeholder"],
   clicks |-> 0, sends |-> 0, failedSinceEvent |-> FALSE,
   last |-> [op |-> "none", api |-> "none", outcome |-> "none"]]

\* patient/upload.html before its script ran. patient is what loadPatient has
\* learnt (patientId), file is selectedFileDataUrl, reads the FileReader reads
\* pending, disabled is btnUpload.disabled, uploads the uploadImage requests in
\* flight, timers the pending redirects
NoUploadPage ==
  [stage |-> "closed", patient |-> "unknown", file |-> "none", reads |-> 0, disabled |-> FALSE,
   uploads |-> 0, timers |-> 0, selects |-> 0, clicks |-> 0, unready |-> FALSE]

\* doctor/create-report.html before its script ran. patient and analysis are the
\* values of the two selects (0 for the empty option), options the analysis ids
\* offered, sent the create-report requests issued
NoReportPage ==
  [stage |-> "closed", doctor |-> "unknown", patient |-> 0, analysis |-> 0, options |-> {},
   analysisDisabled |-> FALSE, submitDisabled |-> FALSE, issued |-> 0, inflight |-> {},
   sent |-> {}, changes |-> 0, submits |-> 0]

\* patient/my-images.html before its script ran: allImages is empty, currentPage
\* is 1, eye and q are the values of the filter select and the search input,
\* debounce tells whether the search input's timer is pending
NoImagesPage ==
  [stage |-> "closed", allImages |-> <<>>, currentPage |-> 1, eye |-> "", q |-> "",
   debounce |-> FALSE, inputs |-> 0]

\* doctor/reviews.html before its script ran. doctorId is the closure's variable
\* (None for null), listed tells whether pending analyses are on the page,
\* dependent the requests issued that carry a doctor id, failedLookup whether a
\* lookup was rejected or answered without a profile
NoReviewsPage ==
  [stage |-> "closed", doctorId |-> None, issued |-> 0, inflight |-> {}, listed |-> FALSE,
   modal |-> FALSE, timer |-> FALSE, submitDisabled |-> FALSE, tabs |-> 0, submits |-> 0,
   resolvedIds |-> {}, dependent |-> {}, failedLookup |-> FALSE]

\* a dashboard, report or analytics page before its script ran. resolved are
\* the resources whose request has resolved, written those whose result is on
\* the page, rejected tells whether a request of the page was rejected
NoLoadsPage ==
  [page |-> "none", issued |-> 0, inflight |-> {}, resolved |-> {}, written |-> {},
   rejected |-> FALSE, failed |-> FALSE, trendChanges |-> 0]

NoCtl == [patients |-> NoPatients, profile |-> NoProfilePage, messages |-> NoMessagesPage,
          upload |-> NoUploadPage, report |-> NoReportPage, images |-> NoImagesPage,
          reviews |-> NoReviewsPage, loads |-> NoLoadsPage]

\* input.value of the form's fields; None for a field the form does not have
Fields(email, password, confirm, roleId) ==
  [email |-> email, password |-> password, confirm |-> confirm, role |-> roleId]
NoFields == Fields(None, None, None, None)

NoSettled ==
  [api |-> None, id |-> 0, response |-> FetchFailed, outcome |-> Resolved(EmptyObject)]
Settled(r, resp, out) == [api |-> r.api, id |-> r.id, response |-> resp, outcome |-> out]

NoGrant == [present |-> FALSE, fields |-> NoAuthFields]

\* the session a document saw when it loaded; none for the pages without a gate
NoSession == [token |-> None, role |-> None]

\* a browser that holds no session; the refresh-token key, which no code here
\* writes, is left over in storage
Init ==
  /\ appBase \in Bases
  /\ storage = [token |-> None, refresh |-> "r0", user |-> NoUser, role |-> None]
  /\ page = "none"
  /\ pathname = <<>>
  /\ running = FALSE
  /\ href = <<>>
  /\ loadSession = NoSession
  /\ pageReqs = 0
  /\ inflight = {}
  /\ settledIds = {}
  /\ lastSettled = NoSettled
  /\ loading = FALSE
  /\ fieldErrors = {}
  /\ formMessage = None
  /\ query = ""
  /\ timer = FALSE
  /\ granted = NoGrant
  /\ lastOp = "init"
  /\ pageError = None
  /\ loadFailed = FALSE
  /\ unhandled = FALSE
  /\ fields = NoFields
  /\ table = NoTable
  /\ clicked = NoClick
  /\ bootstrap = FALSE
  /\ toasts = NoToasts
  /\ modal = NoModal
  /\ spinner = NoSpinner
  /\ ctl = NoCtl

\* a call of request() from the loaded page: the call joins those in flight
Call(id, api, method, hasBody, useAuth) ==
  requestSend(id, api, method, hasBody, useAuth, storage) @@ [useAuth |-> useAuth]

\* what every page load resets: a new document, the requests of the old one abandoned
NewDocument(p, path, q) ==
  /\ page' = p
  /\ pathname' = path
  /\ query' = q
  /\ settledIds' = {}
  /\ lastSettled' = NoSettled
  /\ fieldErrors' = {}
  /\ fields' = NoFields
  /\ timer' = FALSE
  /\ UNCHANGED <<appBase, storage, granted>>

\* the browser loads login.html, register.html, forgot-password.html or
\* reset-password.html?token=q; the reset page without a token shows the bad-link
\* message and disables its button
LoadPublic(p, q) ==
  /\ UNCHANGED uiVars
  /\ NewDocument(p, appBase \o <<p \o ".html">>, q)
  /\ running' = TRUE
  /\ href' = <<>>
  /\ loadSession' = NoSession
  /\ pageReqs' = 0
  /\ inflight' = {}
  /\ loading' = (p = "reset-password" /\ q = "")
  /\ formMessage' = IF p = "reset-password" /\ q = "" THEN MsgResetBadLink ELSE None
  /\ lastOp' = "load"
  /\ pageError' = None
  /\ loadFailed' = FALSE
  /\ unhandled' = FALSE

\* the browser loads a controller's page: the gate, then the load's calls
LoadController(c) ==
  LET path == appBase \o <<c.area, c.file>>
      gate == Gate(c, storage, path)
      go == gate.ok /\ KeyPresent(c, storage)
  IN /\ UNCHANGED uiVars
     /\ NewDocument(c.name, path, "")
     /\ running' = gate.ok
     /\ href' = gate.href
     /\ loadSession' = [token |-> storage.token, role |-> storage.role]
     /\ pageReqs' = IF go THEN Len(c.calls) ELSE 0
     /\ inflight' = IF go
                    THEN {Call(n, c.calls[n], "GET", FALSE, TRUE) : n \in 1..Len(c.calls)}
                    ELSE {}
     /\ loading' = FALSE
     /\ formMessage' = None
     /\ lastOp' = "load"
     /\ pageError' = IF gate.ok /\ ~KeyPresent(c, storage) THEN MsgNoAccount ELSE None
     /\ loadFailed' = FALSE
     /\ unhandled' = (gate.ok /\ ~KeyPresent(c, storage) /\ ~LookupCaught(c))

\* a handler or a continuation of the running controller calls the backend
PageEvent ==
  /\ UNCHANGED uiVars
  /\ page \in ControllerNames
  /\ running
  /\ LET c == ControllerOf(page) IN
     /\ KeyPresent(c, storage)
     /\ pageReqs < Len(c.calls) + MaxEvents
  /\ pageReqs' = pageReqs + 1
  /\ inflight' = inflight \cup {Call(pageReqs + 1, "handler", "GET", FALSE, TRUE)}
  /\ lastOp' = "step"
  /\ UNCHANGED <<fields, pageError, loadFailed, unhandled, appBase, storage, page, pathname, running, href, loadSession, settledIds,
                 lastSettled, loading, fieldErrors, formMessage, query, timer, granted>>

\* a call of the running controller settles: its then or its catch runs. The
\* answers of the model carry no profile, so a lookup that resolves ends in the
\* no-profile branch, which shows its message and rejects the chain.
PageSettle ==
  /\ UNCHANGED uiVars
  /\ page \in ControllerNames
  /\ running
  /\ \E r \in inflight, resp \in PageResponses :
       LET c == ControllerOf(page)
           out == requestSettle(resp)
           ofLoad == r.id <= Len(c.calls)
           rejected == out.kind = "rejected"
           noProfile == ~rejected /\ IsLookup(r.api)
           caught == ~IsLookup(r.api) \/ LookupCaught(c)
           swallowed == ofLoad /\ JointLoad(c) /\ loadFailed
           text == IF Truthy(out.message) THEN out.message ELSE MsgLoadFailed
       IN /\ inflight' = inflight \ {r}
          /\ settledIds' = settledIds \cup {r.id}
          /\ lastSettled' = Settled(r, resp, out)
          /\ pageError' = IF noProfile THEN MsgNoProfile
                          ELSE IF rejected /\ caught /\ ~swallowed THEN text
                          ELSE pageError
          /\ loadFailed' = (loadFailed \/ (ofLoad /\ rejected))
          /\ unhandled' = (unhandled \/ ((rejected \/ noProfile) /\ ~caught))
  /\ lastOp' = "step"
  /\ UNCHANGED <<fields, appBase, storage, page, pathname, running, href, loadSession, pageReqs,
                 loading, fieldErrors, formMessage, query, timer, granted>>

\* submits reaching the backend from one document of a form page
MaxSubmits == 2

\* what a submit that passes validate() does: setLoading(true), then the call
SubmitCall(api) ==
  /\ pageReqs < MaxSubmits
  /\ loading' = TRUE
  /\ pageReqs' = pageReqs + 1
  /\ inflight' = inflight \cup {Call(pageReqs + 1, api, "POST", TRUE, FALSE)}

\* the login form's submit handler, up to the await
SubmitLogin(email, password) ==
  /\ UNCHANGED uiVars
  /\ page = "login"
  /\ running
  /\ ~loading
  /\ formMessage' = None
  /\ fieldErrors' = validateLogin(email, password)
  /\ IF validateLogin(email, password) = {}
     THEN SubmitCall("login")
     ELSE UNCHANGED <<loading, pageReqs, inflight>>
  /\ lastSettled' = NoSettled
  /\ fields' = Fields(email, password, None, None)
  /\ lastOp' = "step"
  /\ UNCHANGED <<pageError, loadFailed, unhandled, appBase, storage, page, pathname, running, href, loadSession, settledIds, query,
                 timer, granted>>

\* the register form's submit handler, up to the await
SubmitRegister(email, password, confirm, roleId) ==
  /\ UNCHANGED uiVars
  /\ page = "register"
  /\ running
  /\ ~loading
  /\ formMessage' = None
  /\ fieldErrors' = validateRegister(email, password, confirm, roleId)
  /\ IF validateRegister(email, password, confirm, roleId) = {}
     THEN SubmitCall("register")
     ELSE UNCHANGED <<loading, pageReqs, inflight>>
  /\ lastSettled' = NoSettled
  /\ fields' = Fields(email, password, confirm, roleId)
  /\ lastOp' = "step"
  /\ UNCHANGED <<pageError, loadFailed, unhandled, appBase, storage, page, pathname, running, href, loadSession, settledIds, query,
                 timer, granted>>

\* the rest of the login and register submit handlers: the response arrives
AuthSettle ==
  /\ UNCHANGED uiVars
  /\ page \in {"login", "register"}
  /\ running
  /\ \E r \in inflight, resp \in AuthResponses :
       LET out == requestSettle(resp)
           auth == IF out.kind = "resolved" THEN setAuthFromResponse(out.data, storage)
                   ELSE [ret |-> FALSE, storage |-> storage]
       IN /\ settledIds' = settledIds \cup {r.id}
          /\ lastSettled' = Settled(r, resp, out)
          /\ storage' = auth.storage
          /\ granted' = IF auth.ret THEN AuthDataOf(out.data) ELSE granted
          /\ href' = IF auth.ret THEN redirectByRole(auth.storage, pathname) ELSE href
          /\ running' = ~auth.ret
          /\ inflight' = IF auth.ret THEN {} ELSE inflight \ {r}
          /\ formMessage' =
               IF auth.ret THEN None
               ELSE IF out.kind = "resolved" THEN MsgInvalidResponse
               ELSE AuthCatchMessage(out.message,
                                     IF page = "login" THEN MsgLoginFailed
                                     ELSE MsgRegisterFailed)
          /\ lastOp' = IF out.kind = "rejected" THEN "auth-rejected"
                       ELSE IF auth.ret THEN "auth-accepted" ELSE "auth-refused"
  /\ loading' = FALSE
  /\ UNCHANGED <<fields, pageError, loadFailed, unhandled, appBase, page, pathname, loadSession, pageReqs, fieldErrors, query, timer>>

\* the forgot password form's submit handler, up to the await
SubmitForgot(email) ==
  /\ UNCHANGED uiVars
  /\ page = "forgot-password"
  /\ running
  /\ ~loading
  /\ fieldErrors' = validateForgot(email)
  /\ IF validateForgot(email) = {}
     THEN SubmitCall("forgotPassword")
     ELSE UNCHANGED <<loading, pageReqs, inflight>>
  /\ fields' = Fields(email, None, None, None)
  /\ lastOp' = "step"
  /\ UNCHANGED <<pageError, loadFailed, unhandled, appBase, storage, page, pathname, running, href, loadSession, settledIds,
                 lastSettled, formMessage, query, timer, granted>>

\* the reset password form's submit handler, up to the await
SubmitReset(newPwd, confirm) ==
  /\ UNCHANGED uiVars
  /\ page = "reset-password"
  /\ running
  /\ ~loading
  /\ query # ""
  /\ fieldErrors' = validateReset(newPwd, confirm)
  /\ IF validateReset(newPwd, confirm) = {}
     THEN SubmitCall("resetPassword")
     ELSE UNCHANGED <<loading, pageReqs, inflight>>
  /\ fields' = Fields(None, newPwd, confirm, None)
  /\ lastOp' = "step"
  /\ UNCHANGED <<pageError, loadFailed, unhandled, appBase, storage, page, pathname, running, href, loadSession, settledIds,
                 lastSettled, formMessage, query, timer, granted>>

\* the rest of the forgot and reset submit handlers: the response arrives; a
\* successful reset starts the timer that leads back to the login page
PublicSettle ==
  /\ UNCHANGED uiVars
  /\ page \in {"forgot-password", "reset-password"}
  /\ running
  /\ \E r \in inflight, resp \in PublicResponses :
       LET out == requestSettle(resp) IN
       /\ inflight' = inflight \ {r}
       /\ settledIds' = settledIds \cup {r.id}
       /\ lastSettled' = Settled(r, resp, out)
       /\ formMessage' =
            IF page = "forgot-password"
            THEN IF out.kind = "resolved" THEN MsgForgotSent
                 ELSE ForgotCatchMessage(out.message)
            ELSE IF out.kind = "resolved" THEN MsgResetDone
                 ELSE ResetCatchMessage(out.message)
       /\ timer' = (timer \/ (page = "reset-password" /\ out.kind = "resolved"))
  /\ loading' = FALSE
  /\ lastOp' = "step"
  /\ UNCHANGED <<fields, pageError, loadFailed, unhandled, appBase, storage, page, pathname, running, href, loadSession, pageReqs,
                 fieldErrors, query, granted>>

\* the document is left for url: its scripts act no more, its requests are
\* abandoned, and what it showed is gone
Leave(url) ==
  /\ page' = "none"
  /\ href' = url
  /\ running' = FALSE
  /\ loadSession' = NoSession
  /\ pageReqs' = 0
  /\ inflight' = {}
  /\ settledIds' = {}
  /\ lastSettled' = NoSettled
  /\ loading' = FALSE
  /\ fieldErrors' = {}
  /\ formMessage' = None
  /\ query' = ""
  /\ timer' = FALSE
  /\ fields' = NoFields
  /\ pageError' = None
  /\ loadFailed' = FALSE
  /\ unhandled' = FALSE
  /\ UNCHANGED <<appBase, pathname>>

\* the reset page's timer fires: the page leaves for the login page
ResetRedirect ==
  /\ UNCHANGED uiVars
  /\ page = "reset-password"
  /\ timer
  /\ Leave(getLoginPageUrl(pathname))
  /\ lastOp' = "step"
  /\ UNCHANGED <<storage, granted>>

\* the header's logout link is clicked: clearAuth(), then the login page
Logout ==
  /\ UNCHANGED uiVars
  /\ page # "none"
  /\ storage' = clearAuth(storage)
  /\ granted' = NoGrant
  /\ Leave(getLoginPageUrl(pathname))
  /\ lastOp' = "logout"

Next ==
  \/ \E p \in PublicPages, q \in QueryTokens :
       /\ (q # "" => p = "reset-password")
       /\ LoadPublic(p, q)
  \/ \E c \in Controllers : LoadController(c)
  \/ PageEvent
  \/ PageSettle
  \/ \E email \in EmailInputs, password \in PasswordInputs : SubmitLogin(email, password)
  \/ \E email \in EmailInputs, password \in PasswordInputs, confirm \in PasswordInputs,
        roleId \in RoleInputs : SubmitRegister(email, password, confirm, roleId)
  \/ AuthSettle
  \/ \E email \in EmailInputs : SubmitForgot(email)
  \/ \E newPwd \in PasswordInputs, confirm \in PasswordInputs : SubmitReset(newPwd, confirm)
  \/ PublicSettle
  \/ ResetRedirect
  \/ Logout

Spec == Init /\ [][Next]_vars

(***************************************************************************)
(* request() on its own: any script calls AuraAPI.get/post/put/patch/      *)
(* delete and the backend answers anything                                 *)
(***************************************************************************)
\* calls made in one run of the HTTP client's specification
MaxApiCalls == 1

ApiCall(method, hasBody) ==
  /\ UNCHANGED uiVars
  /\ pageReqs < MaxApiCalls
  /\ pageReqs' = pageReqs + 1
  /\ inflight' = inflight \cup {Call(pageReqs + 1, "request", method, hasBody, TRUE)}
  /\ lastOp' = "call"
  /\ UNCHANGED <<fields, pageError, loadFailed, unhandled, appBase, storage, page, pathname, running, href, loadSession, settledIds,
                 lastSettled, loading, fieldErrors, formMessage, query, timer, granted>>

ApiSettle ==
  /\ UNCHANGED uiVars
  /\ \E r \in inflight, resp \in HttpResponses :
       /\ inflight' = inflight \ {r}
       /\ settledIds' = settledIds \cup {r.id}
       /\ lastSettled' = Settled(r, resp, requestSettle(resp))
  /\ lastOp' = "settle"
  /\ UNCHANGED <<fields, pageError, loadFailed, unhandled, appBase, storage, page, pathname, running, href, loadSession, pageReqs, loading,
                 fieldErrors, formMessage, query, timer, granted>>

NextHttp ==
  \/ \E method \in HttpMethods, hasBody \in BOOLEAN : ApiCall(method, hasBody)
  \/ ApiSettle

SpecHttp == Init /\ [][NextHttp]_vars

(***************************************************************************)
(* AuraTable on its own: a page renders a table, the user clicks the pager *)
(***************************************************************************)
\* AuraTable.render called by a page whose container exists
TableRender(len, sizeOpt, pageOpt) ==
  /\ table' = render(Rows(len), sizeOpt, pageOpt)
  /\ clicked' = NoClick
  /\ UNCHANGED <<ctl, appVars, widgetVars>>

\* a click on the k-th item of the pager: its listeners run, and each one that
\* goes past the disabled test calls onPageChange(p) and renders page p
PagerClick(k) ==
  /\ table.rendered
  /\ k \in 1..Len(table.pager)
  /\ LET a == table.pager[k]
         calls == onClick(a)
     IN /\ clicked' = [item |-> a, calls |-> calls, happened |-> TRUE]
        /\ table' = IF calls = <<>> THEN table
                     ELSE render(table.data, IntOpt(table.pageSize), IntOpt(calls[Len(calls)]))
  /\ UNCHANGED <<ctl, appVars, widgetVars>>

NextTable ==
  \/ \E len \in 0..MaxLen, sizeOpt \in SizeOpts, pageOpt \in PageOpts :
       TableRender(len, sizeOpt, pageOpt)
  \/ \E k \in 1..(MaxLen + 2) : PagerClick(k)

SpecTable == Init /\ [][NextTable]_vars

(***************************************************************************)
(* The singleton components on their own: scripts call toast, show and     *)
(* hide, the user dismisses, Bootstrap's timers and animations complete    *)
(***************************************************************************)
\* the Bootstrap bundle's script runs and defines window.bootstrap
BootstrapLoads ==
  /\ ~bootstrap
  /\ bootstrap' = TRUE
  /\ UNCHANGED <<ctl, appVars, tableVars, toasts, modal, spinner>>

\* AuraAlert.toast(message, type): the node is appended; with Bootstrap's Toast
\* it is shown, to be hidden after the delay, and removes itself once hidden
Toast(type) ==
  /\ toasts.made < MaxToasts
  /\ LET t == getOrCreateContainer(toasts)
         node == [id |-> t.made + 1, bg |-> bgClassOf(type), shown |-> bootstrap]
     IN toasts' = [t EXCEPT !.made = @ + 1, !.nodes = @ \cup {node}]
  /\ UNCHANGED <<ctl, appVars, tableVars, bootstrap, modal, spinner>>

\* hidden.bs.toast of a shown toast (the delay ran out, or its close button was
\* clicked): the listener removes the node
ToastHidden(node) ==
  /\ node \in toasts.nodes
  /\ node.shown
  /\ toasts' = [toasts EXCEPT !.nodes = @ \ {node}]
  /\ UNCHANGED <<ctl, appVars, tableVars, bootstrap, modal, spinner>>

\* AuraModal.show(options): with Bootstrap's Modal a once-listener for
\* hidden.bs.modal is added to the node and the modal is shown
ModalShow(hasOnClose) ==
  /\ modal.shows < MaxShows
  /\ ~modal.hiding
  /\ LET m == getOrCreate(modal)
         id == m.shows + 1
     IN modal' = IF bootstrap
                 THEN [m EXCEPT !.shows = id, !.open = TRUE, !.displayed = id,
                                !.displayedOnClose = hasOnClose,
                                !.listeners = Append(@, [show |-> id, hasOnClose |-> hasOnClose])]
                 ELSE [m EXCEPT !.shows = id]
  /\ UNCHANGED <<ctl, appVars, tableVars, bootstrap, toasts, spinner>>

\* AuraModal.hide(), or the user's click on a data-bs-dismiss button, the
\* backdrop or Escape: the open modal starts to hide
ModalHide ==
  /\ modal.nodes > 0
  /\ bootstrap
  /\ modal.open
  /\ ~modal.hiding
  /\ modal' = [modal EXCEPT !.hiding = TRUE]
  /\ UNCHANGED <<ctl, appVars, tableVars, bootstrap, toasts, spinner>>

\* hidden.bs.modal: the dismiss animation is over; every listener on the node
\* runs and is removed
ModalHidden ==
  /\ modal.hiding
  /\ modal' = [modal EXCEPT !.open = FALSE, !.hiding = FALSE, !.listeners = <<>>,
                            !.lastHidden = [show |-> modal.displayed,
                                            hasOnClose |-> modal.displayedOnClose,
                                            calls |-> onHidden(modal.listeners)]]
  /\ UNCHANGED <<ctl, appVars, tableVars, bootstrap, toasts, spinner>>

\* AuraSpinner.show()
SpinnerShow ==
  /\ spinner' = IF spinner.ref /\ spinner.overlays > 0
                THEN [spinner EXCEPT !.display = "flex"]
                ELSE [overlays |-> spinner.overlays + 1, ref |-> TRUE, display |-> "flex"]
  /\ UNCHANGED <<ctl, appVars, tableVars, bootstrap, toasts, modal>>

\* AuraSpinner.hide()
SpinnerHide ==
  /\ spinner' = IF spinner.overlays > 0 THEN [spinner EXCEPT !.display = "none"] ELSE spinner
  /\ UNCHANGED <<ctl, appVars, tableVars, bootstrap, toasts, modal>>

NextWidgets ==
  \/ BootstrapLoads
  \/ \E type \in ToastTypes : Toast(type)
  \/ \E node \in toasts.nodes : ToastHidden(node)
  \/ \E hasOnClose \in BOOLEAN : ModalShow(hasOnClose)
  \/ ModalHide
  \/ ModalHidden
  \/ SpinnerShow
  \/ SpinnerHide

SpecWidgets == Init /\ [][NextWidgets]_vars

\* Bootstrap's timers and animations run to their end: a shown toast is hidden,
\* a modal that started to hide gets its hidden event
SpecWidgetsFair ==
  /\ Init
  /\ [][NextWidgets]_vars
  /\ \A id \in 1..MaxToasts : WF_vars(\E node \in toasts.nodes : node.id = id /\ ToastHidden(node))
  /\ WF_vars(ModalHidden)

(***************************************************************************)
(* Properties of request() and parseErrorMessage, under SpecHttp           *)
(***************************************************************************)
\* C1: every call of request() settles exactly once: a call is in flight or
\* settled, never both; it resolves with the parsed body exactly when fetch
\* answered with a 2xx status, rejects with an Error for every other status,
\* and rejects with the connectivity message when fetch itself failed.
C1_RequestSettles ==
  /\ \A r \in inflight : r.id \notin settledIds
  /\ settledIds \cup {r.id : r \in inflight} = 1..pageReqs
  /\ settledIds # {} =>
       LET resp == lastSettled.response
           out == lastSettled.outcome
       IN /\ lastSettled.id \in settledIds
          /\ out.kind \in {"resolved", "rejected"}
          /\ out.kind = "resolved" <=> (resp.fetchOk /\ resp.status \in 200..299)
          /\ out.kind = "resolved" =>
               out.data = IF resp.body.kind = "nojson" THEN EmptyObject ELSE resp.body
          /\ out.kind = "rejected" => out.error \in {"Error", "TypeError"}
          /\ ~resp.fetchOk => out.kind = "rejected" /\ out.error = "Error"
                              /\ out.message = MsgNoConnection

\* a call answered 404 has been rejected
C1_Witness ==
  /\ settledIds = {1}
  /\ lastSettled.response.fetchOk
  /\ lastSettled.response.status = 404
  /\ lastSettled.outcome.kind = "rejected"

\* C2, as stated: a status >= 400 with a message in the body rejects with that
\* message, except 401, 409, 422 and 501, which reject with their fixed message.
C2_FixedOverrides ==
  settledIds # {} =>
    LET resp == lastSettled.response
        out == lastSettled.outcome
    IN (resp.fetchOk /\ resp.status >= 400 /\ resp.body.kind = "object"
        /\ Truthy(resp.body.message)) =>
         /\ out.kind = "rejected"
         /\ out.message = CASE resp.status = 401 -> MsgWrongCredentials
                            [] resp.status = 409 -> MsgDuplicateEmail
                            [] resp.status = 422 -> MsgInvalidData
                            [] resp.status = 501 -> MsgNotImplemented
                            [] OTHER -> resp.body.message

\* C2, amended: a status >= 400 whose body is an object with a non-empty message
\* rejects with an Error carrying exactly that message, for every status, 401,
\* 409, 422 and 501 included; the fixed messages of 401, 409 and 501 are used
\* when the body has neither a non-empty message nor a non-empty error.
C2_BodyMessageFirst ==
  settledIds # {} =>
    LET resp == lastSettled.response
        out == lastSettled.outcome
    IN (resp.fetchOk /\ resp.status >= 400 /\ resp.body.kind = "object") =>
         /\ out.kind = "rejected"
         /\ Truthy(resp.body.message) =>
              out.error = "Error" /\ out.message = resp.body.message
         /\ (~Truthy(resp.body.message) /\ ~Truthy(resp.body.error)
             /\ resp.status \in {401, 409, 501}) =>
              out.message = CASE resp.status = 401 -> MsgWrongCredentials
                              [] resp.status = 409 -> MsgDuplicateEmail
                              [] OTHER -> MsgNotImplemented

\* a 401 whose body has a message has been rejected with the body's message
C2_Witness ==
  /\ settledIds # {}
  /\ lastSettled.response.status = 401
  /\ lastSettled.response.body.kind = "object"
  /\ lastSettled.response.body.message = "m1"
  /\ lastSettled.outcome.message = "m1"

\* C3: every non-2xx response, whatever its body, rejects with an Error whose
\* message follows the precedence: the body's message, else its error, else by
\* status: 422 with errors the joined field errors, 401 wrong credentials, 409
\* duplicate email, 5xx the server-error message, else the request-failed one.
\* Where the code is more specific than the sentence (a lone errors string, no
\* field error left to join, the message of 501) either answer is admitted.
C3_OneReadableMessage ==
  settledIds # {} =>
    LET resp == lastSettled.response
        out == lastSettled.outcome
        data == IF resp.body.kind = "object" THEN resp.body ELSE EmptyObject
        errs == data.errors
        joined == Join(SelectSeq(IF errs.kind = "object" THEN Flat(errs.values)
                                 ELSE <<errs.text>>, Truthy), ". ")
        expected ==
          IF Truthy(data.message) THEN {data.message}
          ELSE IF Truthy(data.error) THEN {data.error}
          ELSE IF resp.status = 422 /\ errs.kind # "absent" /\ joined # ""
               THEN {joined}
          ELSE IF resp.status = 422 /\ errs.kind # "absent"
               THEN {MsgInvalidData, MsgRequestFailed}
          ELSE IF resp.status = 401 THEN {MsgWrongCredentials}
          ELSE IF resp.status = 409 THEN {MsgDuplicateEmail}
          ELSE IF resp.status = 501 THEN {MsgServerError, MsgNotImplemented}
          ELSE IF resp.status >= 500 THEN {MsgServerError}
          ELSE {MsgRequestFailed}
    IN (resp.fetchOk /\ ~(resp.status \in 200..299)) =>
         /\ out.kind = "rejected"
         /\ out.error = "Error"
         /\ out.message \in expected

(***************************************************************************)
(* Properties of the session and the gates, under Spec                     *)
(***************************************************************************)
\* C4: a request carries an Authorization bearer header exactly when it is
\* issued with useAuth and a non-empty token is stored at that moment, and the
\* header holds that token; login, register, forgot-password and reset-password
\* requests never carry it; hence an authenticated request carries the token of
\* the most recent accepted response, and none after clearAuth until the next.
C4_BearerHeader ==
  [][\A r \in (IF lastOp' = "load" THEN inflight' ELSE inflight' \ inflight) :
       /\ r.headers.authorization =
            IF r.useAuth /\ storage.token # None /\ storage.token # ""
            THEN "Bearer " \o storage.token ELSE None
       /\ r.api \in {"login", "register", "forgotPassword", "resetPassword"} =>
            r.headers.authorization = None
       /\ r.useAuth =>
            r.headers.authorization =
              IF granted.present THEN "Bearer " \o granted.fields.access_token
              ELSE None]_vars

\* a controller's call is in flight with the token of the latest login, t2
C4_Witness ==
  /\ page \in ControllerNames
  /\ granted.present
  /\ granted.fields.access_token = "t2"
  /\ \E r \in inflight : r.useAuth /\ r.headers.authorization = "Bearer t2"

\* C5: setAuthFromResponse returns true exactly when the response, or its data
\* envelope when it has one, has a non-empty access_token, and then token, user
\* and role are those of the response; when it returns false storage is as it was.
C5_PersistsOrLeaves ==
  [][lastOp' \in {"auth-accepted", "auth-refused"} =>
       LET body == lastSettled'.outcome.data
           enveloped == body.kind = "object" /\ body.data.kind = "object"
           f == IF enveloped THEN body.data.fields ELSE body.top
       IN /\ lastOp' = "auth-accepted" <=> (body.kind = "object" /\ Truthy(f.access_token))
          /\ lastOp' = "auth-accepted" =>
               /\ storage'.token = f.access_token
               /\ storage'.user = User(f.account_id, f.email, f.role_id, f.clinic_id)
               /\ getRole(storage') = getRoleNameByRoleId(f.role_id)
          /\ lastOp' = "auth-refused" => storage' = storage]_vars

\* C6: whenever a token is stored, the stored role is the table's name for the
\* stored user's role_id, and token, user and role all come from the most recent
\* accepted response.
C6_SessionConsistent ==
  Truthy(storage.token) =>
    /\ getRole(storage) = getRoleNameByRoleId(getUser(storage).role_id)
    /\ granted.present
    /\ storage.token = granted.fields.access_token
    /\ getUser(storage) = User(granted.fields.account_id, granted.fields.email,
                               granted.fields.role_id, granted.fields.clinic_id)
    /\ getRole(storage) = getRoleNameByRoleId(granted.fields.role_id)

\* C7: the stored token, user and role change only in a step where
\* setAuthFromResponse accepts a login or registration response or where logout
\* calls clearAuth; after logout the four keys are absent and isLoggedIn() is false.
C7_StorageFrame ==
  [][/\ (storage'.token # storage.token \/ storage'.user # storage.user
         \/ storage'.role # storage.role)
          => lastOp' \in {"auth-accepted", "logout"}
     /\ lastOp' = "logout" =>
          /\ storage'.token = None /\ storage'.user = NoUser
          /\ storage'.role = None /\ storage'.refresh = None
          /\ ~isLoggedIn(storage')]_vars

\* logout was clicked on the doctor dashboard and storage is empty
C7_Witness ==
  /\ lastOp = "logout"
  /\ pathname = appBase \o <<"doctor", "dashboard.html">>
  /\ storage = [token |-> None, refresh |-> None, user |-> NoUser, role |-> None]

\* C8: requireRole(r) lets the script go on, without navigating, exactly when a
\* token is stored and the stored role is r; with no token it navigates to the
\* login page; with another stored role it navigates to that role's dashboard
\* (index.html for a role without one), never to the dashboard of r.
C8_RequireRole ==
  (page \in ControllerNames /\ ControllerOf(page).gate # None) =>
    LET r == ControllerOf(page).gate
        hasToken == storage.token # None /\ storage.token # ""
        role == IF storage.role = None THEN "" ELSE storage.role
        dashboard == CASE role = "Patient" -> <<"patient", "dashboard.html">>
                       [] role = "Doctor" -> <<"doctor", "dashboard.html">>
                       [] role = "ClinicManager" -> <<"clinic", "dashboard.html">>
                       [] role = "Admin" -> <<"admin", "dashboard.html">>
                       [] OTHER -> <<"index.html">>
        ofR == CASE r = "Doctor" -> <<"doctor", "dashboard.html">>
                 [] OTHER -> <<"clinic", "dashboard.html">>
    IN /\ running <=> (hasToken /\ role = r)
       /\ running => href = <<>>
       /\ ~hasToken => href = appBase \o <<"login.html">>
       /\ (hasToken /\ role # r) =>
            href = appBase \o dashboard /\ href # appBase \o ofR

\* a Patient session that opened the doctor dashboard was sent to its own
C8_Witness ==
  /\ page = "doctor-dashboard"
  /\ storage.role = "Patient"
  /\ ~running
  /\ href = appBase \o <<"patient", "dashboard.html">>

\* C9: a patient, doctor or clinic controller that starts with no token stored
\* navigates to the login page, goes no further (no handler is registered) and
\* issues no backend request.
C9_NoTokenNoRequest ==
  (page \in ControllerNames /\ ~Truthy(loadSession.token)) =>
    /\ ~running
    /\ href = appBase \o <<"login.html">>
    /\ pageReqs = 0
    /\ inflight = {}

\* the patient dashboard was opened with no token stored
C9_Witness ==
  /\ page = "patient-dashboard"
  /\ loadSession.token = None
  /\ ~running
  /\ href = appBase \o <<"login.html">>

\* C10: a controller in one role's area goes on, and issues requests, only for a
\* session whose stored role is that role; a logged-in session with another
\* stored role is redirected by the gate and issues no request on the page.
C10_AreaRoleOnly ==
  (page \in ControllerNames /\ Truthy(loadSession.token)
   /\ getRole(loadSession) # AreaRole(ControllerOf(page).area)) =>
    /\ ~running
    /\ href # <<>>
    /\ pageReqs = 0
    /\ inflight = {}

(***************************************************************************)
(* Properties of the page controllers' error handling, under Spec          *)
(***************************************************************************)
\* C11: for every controller and every request it issues, a rejection of the
\* request, or of the profile lookup before it, is handled: no promise is left
\* rejected without a handler, and after a rejected call the page shows an error.
C11_RejectionsHandled ==
  (page \in ControllerNames /\ settledIds # {}
   /\ lastSettled.outcome.kind = "rejected") =>
    /\ ~unhandled
    /\ Truthy(pageError)

(***************************************************************************)
(* URL resolution on its own: the app served under any base path, a        *)
(* session already in storage, pages opened and the reset page's redirect  *)
(***************************************************************************)
\* base paths: the root, a sub-path, and sub-paths whose last segment is spelled
\* like a role segment
UrlBases == {<<>>, <<"aura">>, <<"clinic">>, <<"apps", "admin">>}

\* what an earlier login left in storage: nothing, or a token with a role
UrlSessions ==
  {[token |-> None, refresh |-> "r0", user |-> NoUser, role |-> None]}
  \cup {[token |-> "t1", refresh |-> "r0", user |-> User("7", "a@b.c", None, "5"), role |-> r] :
          r \in {"Patient", "Doctor", "ClinicManager", "Admin", None}}

InitUrls ==
  /\ appBase \in UrlBases
  /\ storage \in UrlSessions
  /\ page = "none"
  /\ pathname = <<>>
  /\ running = FALSE
  /\ href = <<>>
  /\ loadSession = NoSession
  /\ pageReqs = 0
  /\ inflight = {}
  /\ settledIds = {}
  /\ lastSettled = NoSettled
  /\ loading = FALSE
  /\ fieldErrors = {}
  /\ formMessage = None
  /\ query = ""
  /\ timer = FALSE
  /\ granted = NoGrant
  /\ lastOp = "init"
  /\ pageError = None
  /\ loadFailed = FALSE
  /\ unhandled = FALSE
  /\ fields = NoFields
  /\ table = NoTable
  /\ clicked = NoClick
  /\ bootstrap = FALSE
  /\ toasts = NoToasts
  /\ modal = NoModal
  /\ spinner = NoSpinner
  /\ ctl = NoCtl

NextUrls ==
  \/ \E p \in PublicPages, q \in QueryTokens :
       /\ (q # "" => p = "reset-password")
       /\ LoadPublic(p, q)
  \/ \E c \in Controllers : LoadController(c)
  \/ \E newPwd \in PasswordInputs, confirm \in PasswordInputs : SubmitReset(newPwd, confirm)
  \/ PublicSettle
  \/ ResetRedirect

SpecUrls == InitUrls /\ [][NextUrls]_vars

(***************************************************************************)
(* Properties of the form pages' client-side validation, under Spec        *)
(***************************************************************************)
\* the fields of the submitted form f of page pg that break the page's rules:
\* a well-formed email, a password (of six characters on the register and
\* reset pages), a confirmation equal to the password, a chosen role
FailingFields(pg, f) ==
  (IF pg \in {"login", "register", "forgot-password"} /\ f.email \notin {"a@b.c", " a@b.c "}
   THEN {"email"} ELSE {})
  \cup (IF pg = "login" /\ f.password = "" THEN {"password"} ELSE {})
  \cup (IF pg \in {"register", "reset-password"} /\ f.password \in {"", "abc"}
        THEN {"password"} ELSE {})
  \cup (IF pg \in {"register", "reset-password"} /\ f.confirm # f.password
        THEN {"confirm"} ELSE {})
  \cup (IF pg = "register" /\ f.role = "" THEN {"role"} ELSE {})

\* a step that is a submit of the form of a public page
IsSubmitStep ==
  /\ page \in PublicPages
  /\ page' = page
  /\ lastOp' = "step"
  /\ settledIds' = settledIds
  /\ fields' # NoFields

\* C12: on the login, register, forgot password and reset password pages a
\* submit flags exactly the fields that fail validation, all of them on that
\* same submit, and when any field fails it issues no backend request.
C12_InvalidSubmitSendsNothing ==
  [][IsSubmitStep =>
       /\ fieldErrors' = FailingFields(page, fields')
       /\ (FailingFields(page, fields') # {} =>
             /\ pageReqs' = pageReqs
             /\ inflight' = inflight
             /\ loading' = loading)]_vars

C12_Witness ==
  /\ page = "register"
  /\ fields.password = "abc"
  /\ fields.confirm = "abcdef"
  /\ {"password", "confirm"} \subseteq fieldErrors
  /\ pageReqs = 0
  /\ inflight = {}

(***************************************************************************)
(* Properties of AuraTable, under SpecTable                                *)
(***************************************************************************)
\* the container shows a render asked for page p of size n >= 1, p being a page
\* the data has (or the first page of no data)
AskedExistingPage ==
  /\ table.rendered
  /\ table.sizeOpt.kind = "int" /\ table.sizeOpt.val >= 1
  /\ table.pageOpt.kind = "int" /\ table.pageOpt.val >= 1
  /\ \/ table.pageOpt.val = 1
     \/ (table.pageOpt.val - 1) * table.sizeOpt.val < Len(table.data)

\* the body rows are the items (p-1)*n+1 .. min(p*n, L) of the data, in order
RowsOfPage(n, p) ==
  LET L == Len(table.data)
      count == Min(n, L - (p - 1) * n)
  IN /\ Len(table.pageData) = count
     /\ \A i \in 1..count : table.pageData[i] = table.data[(p - 1) * n + i]

\* C13 as stated: a render of page p with page size n over L items shows exactly
\* min(n, L - (p-1)*n) rows, the items (p-1)*n+1 .. min(p*n, L) in order, and
\* counts ceil(L/n) pages, for every L >= 0.
C13_RowsAndCeilPages ==
  AskedExistingPage =>
    LET n == table.sizeOpt.val
        L == Len(table.data)
    IN /\ RowsOfPage(n, table.pageOpt.val)
       /\ table.totalPages * n >= L
       /\ (table.totalPages - 1) * n < L

\* C13 amended: the rows are as stated for every L >= 0; the page count is
\* ceil(L/n) for L >= 1 and 1 for an empty data array.
C13_RowsAndPages ==
  AskedExistingPage =>
    LET n == table.sizeOpt.val
        L == Len(table.data)
    IN /\ RowsOfPage(n, table.pageOpt.val)
       /\ IF L = 0 THEN table.totalPages = 1
          ELSE /\ table.totalPages * n >= L
               /\ (table.totalPages - 1) * n < L

C13_Witness ==
  /\ AskedExistingPage
  /\ Len(table.data) = 11
  /\ table.sizeOpt = IntOpt(3)
  /\ table.pageOpt = IntOpt(4)
  /\ table.pageData = <<110, 111>>
  /\ table.totalPages = 4

\* the slice of the render in the container starts inside the data (at its end
\* only when there is none) and copies items of the data only
SliceInsideData ==
  LET L == Len(table.data)
  IN /\ table.pageSize >= 1
     /\ table.start = (table.currentPage - 1) * table.pageSize
     /\ table.start >= 0
     /\ table.start <= L
     /\ Len(table.pageData) <= table.pageSize
     /\ \A i \in 1..Len(table.pageData) :
          /\ table.start + i <= L
          /\ table.pageData[i] = table.data[table.start + i]

\* C14 as stated: whatever page and page size a render is asked for, the page it
\* renders lies in [1, ceil(len/pageSize)] and the slice stays inside the data.
C14_ClampedToCeil ==
  table.rendered =>
    /\ table.currentPage >= 1
    /\ (table.currentPage - 1) * table.pageSize < Len(table.data)
    /\ SliceInsideData

\* C14 amended: the page rendered lies in [1, max(1, ceil(len/pageSize))], page 1
\* for empty data, and the slice stays inside the data.
C14_ClampedToPages ==
  table.rendered =>
    /\ table.currentPage >= 1
    /\ \/ table.currentPage = 1
       \/ (table.currentPage - 1) * table.pageSize < Len(table.data)
    /\ SliceInsideData

C14_Witness ==
  /\ table.rendered
  /\ ~clicked.happened
  /\ Len(table.data) = 11
  /\ table.sizeOpt = IntOpt(-1)
  /\ table.pageOpt = IntOpt(MaxLen + 1)
  /\ table.pageSize = 1
  /\ table.currentPage = 11
  /\ table.pageData = <<111>>

\* the pager's items between the previous and the next control
PagerBody == SubSeq(table.pager, 2, Len(table.pager) - 1)

\* the page numbers the pager shows
PagerNumbers == {PagerBody[k].page : k \in {j \in 1..Len(PagerBody) : PagerBody[j].kind = "page"}}

\* C15: when there is more than one page, the pager shows, in ascending order and
\* each once, page 1, the last page and every page within 2 of the current one;
\* an ellipsis stands exactly where at least one number is skipped between two
\* shown numbers; the previous control is disabled exactly on page 1 and the
\* next control exactly on the last page.
C15_PagerShape ==
  (table.rendered /\ table.totalPages > 1) =>
    LET T == table.totalPages
        c == table.currentPage
        n == Len(table.pager)
        b == PagerBody
    IN /\ n >= 3
       /\ table.pager[1].kind = "prev" /\ (table.pager[1].disabled <=> c = 1)
       /\ table.pager[n].kind = "next" /\ (table.pager[n].disabled <=> c = T)
       /\ \A k \in 1..Len(b) : b[k].kind \in {"page", "ellipsis"}
       /\ PagerNumbers = {q \in 1..T : q = 1 \/ q = T \/ (q >= c - 2 /\ q <= c + 2)}
       /\ b[1].kind = "page" /\ b[Len(b)].kind = "page"
       /\ \A k \in 1..(Len(b) - 1) :
            /\ (b[k].kind = "page" /\ b[k + 1].kind = "page") => b[k + 1].page = b[k].page + 1
            /\ b[k].kind = "ellipsis" =>
                 /\ k > 1
                 /\ b[k - 1].kind = "page" /\ b[k + 1].kind = "page"
                 /\ b[k + 1].page >= b[k - 1].page + 2

C15_Witness ==
  /\ table.rendered
  /\ table.totalPages = 11
  /\ table.currentPage = 5
  /\ Len(table.pager) = 11
  /\ table.pager[3].kind = "ellipsis"
  /\ table.pager[9].kind = "ellipsis"
  /\ ~table.pager[1].disabled
  /\ ~table.pager[11].disabled

\* C16: a click on an enabled pager link for page p calls onPageChange(p) exactly
\* once and leaves the container showing page p of the same data; a click on a
\* disabled control (or on an ellipsis) calls nothing and changes nothing; so
\* onPageChange is never called with a page outside 1 .. total pages, and no
\* pager item ever carries more than one click listener.
C16_ClickChangesPage ==
  [][clicked'.happened =>
       LET a == clicked'.item
           L == Len(table.data)
           count == Min(table.pageSize, L - (a.page - 1) * table.pageSize)
       IN /\ \E k \in 1..Len(table.pager) : table.pager[k] = a
          /\ IF a.disabled
             THEN /\ clicked'.calls = <<>>
                  /\ table' = table
             ELSE /\ clicked'.calls = <<a.page>>
                  /\ a.page >= 1 /\ a.page <= table.totalPages
                  /\ table'.data = table.data
                  /\ table'.pageSize = table.pageSize
                  /\ table'.currentPage = a.page
                  /\ Len(table'.pageData) = count
                  /\ \A i \in 1..count :
                       table'.pageData[i] = table.data[(a.page - 1) * table.pageSize + i]
          /\ \A k \in 1..Len(table'.pager) : table'.pager[k].listeners <= 1]_vars

C16_Witness ==
  /\ clicked.happened
  /\ clicked.item.kind = "page"
  /\ clicked.calls = <<3>>
  /\ Len(table.data) = 8
  /\ table.pageSize = 3
  /\ table.currentPage = 3
  /\ table.pageData = <<107, 108>>
  /\ table.pager[Len(table.pager)].disabled

\* a disabled previous control was clicked and nothing was called
C16_DisabledWitness ==
  /\ clicked.happened
  /\ clicked.item.kind = "prev"
  /\ clicked.item.disabled
  /\ clicked.calls = <<>>
  /\ table.currentPage = 1

(***************************************************************************)
(* Properties of the singleton components, under SpecWidgets               *)
(***************************************************************************)
\* C17: whatever the sequence of AuraModal.show and hide calls, a completed
\* dismissal runs the close callback of the show that was displayed, once, and
\* no other: not the onClose of a show that a later show replaced.
C17_OneCloseCallback ==
  modal.lastHidden.show # 0 =>
    modal.lastHidden.calls =
      IF modal.lastHidden.hasOnClose THEN <<modal.lastHidden.show>> ELSE <<>>

\* C18: whatever toast, modal and spinner calls were made, the document holds at
\* most one toast container, one modal node and one spinner overlay; each exists
\* from the first call that needs it on, and later calls reuse it.
C18_Singletons ==
  /\ toasts.containers = (IF toasts.made > 0 THEN 1 ELSE 0)
  /\ modal.nodes = (IF modal.shows > 0 THEN 1 ELSE 0)
  /\ spinner.overlays = (IF spinner.ref THEN 1 ELSE 0)
  /\ (spinner.display # None => spinner.ref)

C18_Witness ==
  /\ toasts.made = 2
  /\ toasts.containers = 1
  /\ modal.shows = 2
  /\ modal.nodes = 1
  /\ spinner.overlays = 1
  /\ spinner.display = "none"

\* the toast node of the id-th toast() call is in the container
InContainer(id) == \E node \in toasts.nodes : node.id = id

\* C19, under SpecWidgetsFair: every toast node appended to the container is
\* eventually removed from it, for every toast() call, so the container ends
\* up with no toast node once no new toast is raised.
C19_ToastsRemoved ==
  /\ \A id \in 1..MaxToasts : InContainer(id) ~> ~InContainer(id)
  /\ <>[](toasts.nodes = {})

(***************************************************************************)
(* Properties of the URL resolution, under SpecUrls                        *)
(***************************************************************************)
\* C20: whatever base path B the app is served under, getLoginPageUrl called on
\* B/<page> (the reset page's redirect) and on B/<role segment>/<page> (the gate
\* of a controller without a token) gives B/login.html, and the role-mismatch
\* redirect of requireRole on B/<role segment>/<page> goes to B/ followed by
\* the stored role's dashboard path.
C20_UrlsUnderBase ==
  [][/\ (page = "reset-password" /\ timer /\ page' = "none") =>
          href' = appBase \o <<"login.html">>
     /\ (lastOp' = "load" /\ page' \in ControllerNames /\ ~Truthy(storage.token)) =>
          href' = appBase \o <<"login.html">>
     /\ (lastOp' = "load" /\ page' \in ControllerNames /\ Truthy(storage.token)
         /\ ControllerOf(page').gate # None
         /\ getRole(storage) # ControllerOf(page').gate) =>
          href' = appBase \o DashboardOf(getRole(storage))]_vars

(***************************************************************************)
(* pages/doctor-patients.js: the patient search                            *)
(***************************************************************************)
\* searches made in one run
MaxSearches == 3

SearchNames == {"", "an"}
SearchRisks == {"", "high"}
\* what searchPatients settles with: patients, no patient, a rejection
SearchOutcomes == {"list", "empty", "rejected"}

\* the then / catch of doSearch: the list, the empty notice or the error of this
\* response replaces what the page shows
searchSettled(pt, r, outcome) ==
  [pt EXCEPT !.inflight = @ \ {r}, !.shown = [req |-> r.id, kind |-> outcome]]

\* doSearch(): on init, on submit of the search form and on the reset button;
\* the loading placeholder replaces the list and searchPatients is called
doSearch(name, riskLevel) ==
  /\ ctl.patients.issued < MaxSearches
  /\ LET id == ctl.patients.issued + 1 IN
     ctl' = [ctl EXCEPT !.patients =
               [issued |-> id,
                inflight |-> ctl.patients.inflight
                             \cup {[id |-> id, name |-> name, risk_level |-> riskLevel]},
                shown |-> [req |-> ctl.patients.shown.req, kind |-> "loading"]]]
  /\ UNCHANGED <<appVars, tableVars, widgetVars>>

\* a searchPatients call settles
SearchSettle ==
  /\ \E r \in ctl.patients.inflight, outcome \in SearchOutcomes :
       ctl' = [ctl EXCEPT !.patients = searchSettled(@, r, outcome)]
  /\ UNCHANGED <<appVars, tableVars, widgetVars>>

NextSearch ==
  \/ \E name \in SearchNames, riskLevel \in SearchRisks : doSearch(name, riskLevel)
  \/ SearchSettle

SpecSearch == Init /\ [][NextSearch]_vars

\* C21: on a page that reloads its list when a search or filter control changes,
\* once every request in flight has settled the page shows the response to the
\* most recently issued request, in whatever order the responses arrived.
C21_LatestRequestShown ==
  (ctl.patients.issued > 0 /\ ctl.patients.inflight = {}) =>
    ctl.patients.shown.req = ctl.patients.issued

(***************************************************************************)
(* The profile pages: part_006 (patient), part_010 (doctor),               *)
(* pages/clinic-usage.js (clinic)                                          *)
(***************************************************************************)
\* form submits in one run
MaxSaves == 2

ProfileKinds == {"patient", "doctor", "clinic"}
\* the id the backend gives the account's profile
ProfileId == "p1"

\* load(): the save button is disabled and the profile is looked up
loadProfile(pf) ==
  [pf EXCEPT !.saveDisabled = TRUE, !.issued = @ + 1,
             !.inflight = @ \cup {[id |-> pf.issued + 1, api |-> "lookup"]}]

\* then + finally of a save that resolved: the patient page reloads after a
\* create only, the doctor and clinic pages after every save; the doctor page
\* takes doctor_id from the response when it has one; finally enables the button
saved(pf, hasId) ==
  IF pf.kind = "patient" /\ pf.id # None THEN [pf EXCEPT !.saveDisabled = FALSE]
  ELSE [loadProfile([pf EXCEPT !.id = IF pf.kind = "doctor" /\ hasId THEN ProfileId ELSE @])
          EXCEPT !.saveDisabled = FALSE]

\* then / catch + finally of load(): the id is set from a profile, cleared when
\* the answer has none, and on a rejection cleared by the doctor page only
looked(pf, outcome) ==
  [pf EXCEPT !.saveDisabled = FALSE,
             !.id = IF pf.kind = "clinic" THEN @
                    ELSE IF outcome = "profile" THEN ProfileId
                    ELSE IF outcome = "none" THEN None
                    ELSE IF pf.kind = "doctor" THEN None ELSE @]

\* the page's script runs past its gate with an account (a clinic) in storage
ProfileOpen(kind, exists) ==
  /\ ctl.profile.kind = "none"
  /\ ctl' = [ctl EXCEPT !.profile =
               loadProfile([NoProfilePage EXCEPT !.kind = kind,
                                                 !.exists = (exists \/ kind = "clinic")])]
  /\ UNCHANGED <<appVars, tableVars, widgetVars>>

\* submit of a filled-in form, which a disabled save button does not allow:
\* update with the id the page holds, create when it holds none
ProfileSubmit ==
  /\ ctl.profile.kind # "none"
  /\ ~ctl.profile.saveDisabled
  /\ ctl.profile.saves < MaxSaves
  /\ LET pf == ctl.profile
         create == pf.kind # "clinic" /\ pf.id = None
     IN ctl' = [ctl EXCEPT !.profile =
                  [pf EXCEPT !.saveDisabled = TRUE, !.issued = @ + 1, !.saves = @ + 1,
                             !.inflight = @ \cup {[id |-> pf.issued + 1,
                                                   api |-> IF create THEN "create" ELSE "update"]},
                             !.creates = IF create THEN @ + 1 ELSE @,
                             !.createdOverProfile = (@ \/ (create /\ pf.exists)),
                             !.updatedNoProfile = (@ \/ (~create /\ ~pf.exists))]]
  /\ UNCHANGED <<appVars, tableVars, widgetVars>>

\* a request of the page settles: the lookup with the account's profile, with
\* no profile, or rejected; a save resolved (a create makes the profile exist)
\* or rejected
ProfileSettle ==
  /\ \E r \in ctl.profile.inflight, outcome \in {"profile", "none", "ok", "okWithId", "rejected"} :
       LET pf == [ctl.profile EXCEPT !.inflight = @ \ {r}] IN
       /\ outcome \in (IF r.api = "lookup"
                       THEN (IF pf.exists THEN {"profile"} ELSE {"none"}) \cup {"rejected"}
                       ELSE {"ok", "okWithId", "rejected"})
       /\ ctl' = [ctl EXCEPT !.profile =
                    IF r.api = "lookup" THEN looked(pf, outcome)
                    ELSE IF outcome = "rejected" THEN [pf EXCEPT !.saveDisabled = FALSE]
                    ELSE saved([pf EXCEPT !.exists = TRUE], outcome = "okWithId")]
  /\ UNCHANGED <<appVars, tableVars, widgetVars>>

NextProfile ==
  \/ \E kind \in ProfileKinds, exists \in BOOLEAN : ProfileOpen(kind, exists)
  \/ ProfileSubmit
  \/ ProfileSettle

SpecProfile == Init /\ [][NextProfile]_vars

\* C24: on the patient and doctor profile pages, over any loads and submits, a
\* create request is issued only while the account has no profile and an update
\* only while it has one, and at most one create request is ever issued.
C24_CreateOnlyWithoutProfile ==
  ctl.profile.kind \in {"patient", "doctor"} =>
    /\ ~ctl.profile.createdOverProfile
    /\ ~ctl.profile.updatedNoProfile
    /\ ctl.profile.creates <= 1

\* C29: on the three profile pages the save button is disabled exactly while a
\* load or save request of the page is in flight.
C29_SaveDisabledWhileInFlight ==
  ctl.profile.kind # "none" =>
    (ctl.profile.saveDisabled <=> ctl.profile.inflight # {})

(***************************************************************************)
(* pages/doctor-messages.js: conversations and their messages              *)
(***************************************************************************)
\* clicks on conversations and sent messages in one run
MaxClicks == 2
MaxSends == 1

\* conversation ids the backend lists for the doctor
Conversations == {1, 2}

\* a request of the page leaves: api is the AuraAPI function, conv its conversation
issue(ms, api, conv) ==
  [ms EXCEPT !.issued = @ + 1,
             !.inflight = @ \cup {[id |-> ms.issued + 1, api |-> api, conv |-> conv]}]

\* selectConversation(conversationId)
selectConversation(ms, conversationId) ==
  issue([ms EXCEPT !.current = conversationId,
                   !.shown = [conv |-> conversationId, kind |-> "loading"]],
        "messages", conversationId)

\* a failed send that is sent again
sendFailed_Retry(ms, r) ==
  issue([ms EXCEPT !.sendDisabled = FALSE], "send", r.conv)

\* catch + finally of sendMessage: the error is shown, the button enabled
sendFailed(ms, r) ==
  [ms EXCEPT !.sendDisabled = FALSE]

\* what the handlers of request r do with its outcome
messagesSettled(ms, r, outcome) ==
  IF r.api = "lookup" THEN
    IF outcome = "ok" THEN issue([ms EXCEPT !.doctor = "known"], "conversations", 0)
    ELSE [ms EXCEPT !.doctor = "none"]
  ELSE IF r.api = "conversations" THEN
    [ms EXCEPT !.listed = (outcome = "ok")]
  ELSE IF r.api = "messages" THEN
    [ms EXCEPT !.shown = [conv |-> r.conv, kind |-> IF outcome = "ok" THEN "messages" ELSE "error"]]
  ELSE IF outcome = "ok" THEN selectConversation([ms EXCEPT !.sendDisabled = FALSE], r.conv)
  ELSE sendFailed(ms, r)

\* outcomes of a request: the lookup may also answer without a doctor profile,
\* the conversations request with an empty list
OutcomesOf(api) ==
  IF api \in {"lookup", "conversations"} THEN {"ok", "none", "rejected"} ELSE {"ok", "rejected"}

\* the script runs with an account in storage: loadDoctor(loadConversations)
MessagesOpen ==
  /\ ~ctl.messages.open
  /\ ctl' = [ctl EXCEPT !.messages =
               issue([@ EXCEPT !.open = TRUE,
                               !.last = [op |-> "open", api |-> "lookup", outcome |-> "none"]],
                     "lookup", 0)]
  /\ UNCHANGED <<appVars, tableVars, widgetVars>>

\* click on a conversation of the rendered list
ConversationClick(c) ==
  /\ ctl.messages.listed
  /\ ctl.messages.clicks < MaxClicks
  /\ ctl' = [ctl EXCEPT !.messages =
               selectConversation([@ EXCEPT !.clicks = @ + 1, !.failedSinceEvent = FALSE,
                                            !.last = [op |-> "click", api |-> "messages", outcome |-> "none"]],
                                  c)]
  /\ UNCHANGED <<appVars, tableVars, widgetVars>>

\* sendMessage(e) with a text typed: it needs a conversation, and the form
\* does not submit through a disabled button
SendMessage ==
  /\ ctl.messages.current # 0
  /\ ~ctl.messages.sendDisabled
  /\ ctl.messages.sends < MaxSends
  /\ ctl' = [ctl EXCEPT !.messages =
               issue([@ EXCEPT !.sends = @ + 1, !.sendDisabled = TRUE, !.failedSinceEvent = FALSE,
                               !.last = [op |-> "send", api |-> "send", outcome |-> "none"]],
                     "send", ctl.messages.current)]
  /\ UNCHANGED <<appVars, tableVars, widgetVars>>

\* a response arrives, in any order
MessagesSettle ==
  /\ \E r \in ctl.messages.inflight : \E outcome \in OutcomesOf(r.api) :
       ctl' = [ctl EXCEPT !.messages =
                 messagesSettled([@ EXCEPT !.inflight = @ \ {r},
                                           !.failedSinceEvent = (@ \/ outcome = "rejected"),
                                           !.last = [op |-> "settle", api |-> r.api, outcome |-> outcome]],
                                 r, outcome)]
  /\ UNCHANGED <<appVars, tableVars, widgetVars>>

NextMessages ==
  \/ MessagesOpen
  \/ \E c \in Conversations : ConversationClick(c)
  \/ SendMessage
  \/ MessagesSettle

SpecMessages == Init /\ [][NextMessages]_vars

\* C26: once every request of the messages page has settled, the messages (or
\* the error) in messagesList are those of the conversation whose id is in
\* currentConversationId, whatever the order of clicks, sends and responses.
C26_ShownIsCurrent ==
  (ctl.messages.inflight = {} /\ ctl.messages.current # 0) =>
    ctl.messages.shown.conv = ctl.messages.current

MaxSelects == 2
MaxUploadClicks == 2

\* onFileSelect(file) with an image: the data url is dropped and the file read
onFileSelect(up) ==
  [up EXCEPT !.file = "none", !.reads = @ + 1]

\* the click listener of btnUpload: an error when the file or the patient id
\* is missing, otherwise the button is disabled and uploadImage called
uploadClick(up) ==
  IF up.file = "none" \/ up.patient # "known" THEN up
  ELSE [up EXCEPT !.disabled = TRUE, !.uploads = @ + 1,
                  !.unready = (@ \/ up.file # "read" \/ up.patient # "known")]

\* the script runs past requireLogin with an account: loadPatient(). The
\* button starts as upload.html has it, enabled or disabled
UploadOpen(disabled) ==
  /\ ctl.upload.stage = "closed"
  /\ ctl' = [ctl EXCEPT !.upload = [@ EXCEPT !.stage = "lookup", !.disabled = disabled]]
  /\ UNCHANGED <<appVars, tableVars, widgetVars>>

\* getPatientByAccount settles: with a patient_id, without one, or rejected
PatientLookupSettle(outcome) ==
  /\ ctl.upload.stage = "lookup"
  /\ ctl' = [ctl EXCEPT !.upload =
               IF outcome = "ok" THEN [@ EXCEPT !.stage = "open", !.patient = "known"]
               ELSE [@ EXCEPT !.stage = "open", !.patient = "none", !.disabled = TRUE]]
  /\ UNCHANGED <<appVars, tableVars, widgetVars>>

\* an image is chosen in the file input or dropped on the drop zone
FileSelect ==
  /\ ctl.upload.stage \in {"lookup", "open"}
  /\ ctl.upload.selects < MaxSelects
  /\ ctl' = [ctl EXCEPT !.upload = onFileSelect([@ EXCEPT !.selects = @ + 1])]
  /\ UNCHANGED <<appVars, tableVars, widgetVars>>

\* the FileReader finishes: onload keeps the data url and enables the button,
\* onerror shows an error
FileRead(ok) ==
  /\ ctl.upload.stage \in {"lookup", "open"}
  /\ ctl.upload.reads > 0
  /\ ctl' = [ctl EXCEPT !.upload =
               IF ok THEN [@ EXCEPT !.reads = @ - 1, !.file = "read", !.disabled = FALSE]
               ELSE [@ EXCEPT !.reads = @ - 1]]
  /\ UNCHANGED <<appVars, tableVars, widgetVars>>

\* a click on the upload button, which a disabled button does not deliver
UploadClick ==
  /\ ctl.upload.stage \in {"lookup", "open"}
  /\ ~ctl.upload.disabled
  /\ ctl.upload.clicks < MaxUploadClicks
  /\ ctl' = [ctl EXCEPT !.upload = uploadClick([@ EXCEPT !.clicks = @ + 1])]
  /\ UNCHANGED <<appVars, tableVars, widgetVars>>

\* uploadImage settles: success drops the file, keeps the button disabled and
\* starts the 800 ms redirect timer; failure enables the button
UploadSettle(ok) ==
  /\ ctl.upload.stage \in {"lookup", "open"}
  /\ ctl.upload.uploads > 0
  /\ ctl' = [ctl EXCEPT !.upload =
               IF ok THEN [@ EXCEPT !.uploads = @ - 1, !.file = "none", !.disabled = TRUE,
                                    !.timers = @ + 1]
               ELSE [@ EXCEPT !.uploads = @ - 1, !.disabled = FALSE]]
  /\ UNCHANGED <<appVars, tableVars, widgetVars>>

\* the redirect timer fires: the document is replaced by my-images.html
UploadRedirect ==
  /\ ctl.upload.stage \in {"lookup", "open"}
  /\ ctl.upload.timers > 0
  /\ ctl' = [ctl EXCEPT !.upload = [@ EXCEPT !.stage = "left", !.reads = 0, !.uploads = 0,
                                              !.timers = 0]]
  /\ UNCHANGED <<appVars, tableVars, widgetVars>>

NextUpload ==
  \/ \E disabled \in BOOLEAN : UploadOpen(disabled)
  \/ \E outcome \in {"ok", "none", "rejected"} : PatientLookupSettle(outcome)
  \/ FileSelect
  \/ \E ok \in BOOLEAN : FileRead(ok)
  \/ UploadClick
  \/ \E ok \in BOOLEAN : UploadSettle(ok)
  \/ UploadRedirect

SpecUpload == Init /\ [][NextUpload]_vars

\* C28: on the upload page at most one upload request is in flight at any
\* time, and an upload is issued only with the patient id resolved and a file
\* read; the button cannot start a second upload while one is pending.
C28_OneUploadInFlight ==
  /\ ctl.upload.uploads <= 1
  /\ ~ctl.upload.unready

(***************************************************************************)
(* pages/doctor-create-report.js                                           *)
(***************************************************************************)
\* changes of the patient select and submits of the form in one run
MaxChanges == 2
MaxReports == 1

\* patient ids the search lists, and the analysis the backend holds for each
ReportPatients == {1, 2}
AnalysisOf(pid) == 10 + pid

\* onPatientChange(): the options are cleared, and the analyses of the chosen
\* patient requested unless the empty option was chosen
onPatientChange(rp) ==
  LET cleared == [rp EXCEPT !.options = {}, !.analysis = 0, !.analysisDisabled = (rp.patient = 0)]
  IN IF rp.patient = 0 THEN cleared
     ELSE [cleared EXCEPT !.issued = @ + 1,
                          !.inflight = @ \cup {[id |-> rp.issued + 1, api |-> "analyses",
                                                pid |-> rp.patient]}]

\* submitForm(e) with a report url typed: nothing is sent without a patient, an
\* analysis and the doctor id
submitForm(rp) ==
  IF rp.patient = 0 \/ rp.analysis = 0 \/ rp.doctor # "known" THEN rp
  ELSE [rp EXCEPT !.submitDisabled = TRUE, !.issued = @ + 1,
                  !.inflight = @ \cup {[id |-> rp.issued + 1, api |-> "create", pid |-> rp.patient]},
                  !.sent = @ \cup {[patient_id |-> rp.patient, analysis_id |-> rp.analysis]}]

\* the handlers of request r: the lookup (then loadPatients), the patient list
\* (with the patient_id of the query string chosen), the analyses, the create
reportSettled(rp, r, ok, prePatient) ==
  IF r.api = "lookup" THEN
    IF ok THEN [rp EXCEPT !.doctor = "known", !.issued = @ + 1,
                          !.inflight = @ \cup {[id |-> rp.issued + 1, api |-> "patients", pid |-> 0]}]
    ELSE [rp EXCEPT !.doctor = "none"]
  ELSE IF r.api = "patients" THEN
    IF ~ok THEN rp
    ELSE IF prePatient = 0 THEN [rp EXCEPT !.stage = "listed", !.patient = 0]
    ELSE onPatientChange([rp EXCEPT !.stage = "listed", !.patient = prePatient])
  ELSE IF r.api = "analyses" THEN
    [rp EXCEPT !.options = IF ok THEN {AnalysisOf(r.pid)} ELSE {}, !.analysis = 0]
  ELSE IF ok THEN [rp EXCEPT !.patient = 0, !.analysis = 0, !.options = {},
                             !.analysisDisabled = TRUE, !.submitDisabled = FALSE]
  ELSE [rp EXCEPT !.submitDisabled = FALSE]

\* the script runs past requireRole with an account: loadDoctor(loadPatients)
ReportOpen ==
  /\ ctl.report.stage = "closed"
  /\ ctl' = [ctl EXCEPT !.report =
               [@ EXCEPT !.stage = "open", !.issued = 1,
                         !.inflight = {[id |-> 1, api |-> "lookup", pid |-> 0]}]]
  /\ UNCHANGED <<appVars, tableVars, widgetVars>>

\* change of the patient select, to a listed patient or to the empty option
PatientChange(pid) ==
  /\ ctl.report.stage = "listed"
  /\ ctl.report.changes < MaxChanges
  /\ ctl' = [ctl EXCEPT !.report =
               onPatientChange([@ EXCEPT !.patient = pid, !.changes = @ + 1])]
  /\ UNCHANGED <<appVars, tableVars, widgetVars>>

\* the doctor picks an offered analysis
AnalysisPick(a) ==
  /\ ctl.report.stage = "listed"
  /\ ~ctl.report.analysisDisabled
  /\ a \in ctl.report.options
  /\ ctl.report.analysis # a
  /\ ctl' = [ctl EXCEPT !.report = [@ EXCEPT !.analysis = a]]
  /\ UNCHANGED <<appVars, tableVars, widgetVars>>

\* submit of the form, which a disabled submit button does not allow
ReportSubmit ==
  /\ ctl.report.stage # "closed"
  /\ ~ctl.report.submitDisabled
  /\ ctl.report.submits < MaxReports
  /\ ctl' = [ctl EXCEPT !.report = submitForm([@ EXCEPT !.submits = @ + 1])]
  /\ UNCHANGED <<appVars, tableVars, widgetVars>>

\* a response arrives, in any order
ReportSettle ==
  /\ \E r \in ctl.report.inflight, ok \in BOOLEAN, prePatient \in {0} \cup ReportPatients :
       /\ (r.api # "patients" \/ ~ok) => prePatient = 0
       /\ ctl' = [ctl EXCEPT !.report =
                    reportSettled([@ EXCEPT !.inflight = @ \ {r}], r, ok, prePatient)]
  /\ UNCHANGED <<appVars, tableVars, widgetVars>>

NextReport ==
  \/ ReportOpen
  \/ \E pid \in {0} \cup ReportPatients : PatientChange(pid)
  \/ \E a \in {AnalysisOf(pid) : pid \in ReportPatients} : AnalysisPick(a)
  \/ ReportSubmit
  \/ ReportSettle

SpecReport == Init /\ [][NextReport]_vars

\* C27: every create-report request carries an analysis id that the analyses
\* lookup returned for the patient id of the same request, and once the
\* requests have settled the analyses offered are those of the chosen patient.
C27_AnalysisOfSamePatient ==
  /\ \A q \in ctl.report.sent : q.analysis_id = AnalysisOf(q.patient_id)
  /\ { r \in ctl.report.inflight : r.api = "analyses" } = {} =>
       \A a \in ctl.report.options : a = AnalysisOf(ctl.report.patient)

(***************************************************************************)
(* part_008: the patient's images, filtered and paged                      *)
(***************************************************************************)
\* `var pageSize = 10`
ImagesPageSize == 10
\* filter changes and search inputs in one run
MaxInputs == 2

\* the images of the backend's answer: eye_side and image_type of image img
EyeSideOf(img) == IF img % 2 = 1 THEN "left" ELSE "right"
ImageTypeOf(img) == IF img <= 103 THEN "fundus" ELSE "oct"
EyeValues == {"", "left", "right"}
\* what is typed into the search box: nothing, or a text that is part of one
\* image type and of no image id
SearchTexts == {"", "oct"}

\* filterData(): the eye filter, then the search text against type and id
filterData(im) ==
  LET byEye(img) == im.eye = "" \/ EyeSideOf(img) = im.eye
      byText(img) == im.q = "" \/ ImageTypeOf(img) = im.q
  IN SelectSeq(SelectSeq(im.allImages, byEye), byText)

\* render(): AuraTable.render with the filtered list, pageSize and currentPage
renderImages(im) ==
  render(filterData(im), IntOpt(ImagesPageSize), IntOpt(im.currentPage))

\* init(): the patient lookup
ImagesOpen ==
  /\ ctl.images.stage = "closed"
  /\ ctl' = [ctl EXCEPT !.images = [@ EXCEPT !.stage = "lookup"]]
  /\ UNCHANGED <<appVars, tableVars, widgetVars>>

\* the lookup settles: with a patient_id the images are requested, otherwise
\* the catch replaces the container's content
ImagesLookupSettle(ok) ==
  /\ ctl.images.stage = "lookup"
  /\ ctl' = [ctl EXCEPT !.images = [@ EXCEPT !.stage = IF ok THEN "loading" ELSE "failed"]]
  /\ table' = IF ok THEN table ELSE NoTable
  /\ clicked' = NoClick
  /\ UNCHANGED <<appVars, widgetVars>>

\* getImagesByPatient settles: allImages is kept and the table rendered, or
\* the catch replaces the container's content
ImagesLoaded(len, ok) ==
  /\ ctl.images.stage = "loading"
  /\ LET im == [ctl.images EXCEPT !.stage = IF ok THEN "shown" ELSE "failed",
                                   !.allImages = IF ok THEN Rows(len) ELSE @]
     IN /\ ctl' = [ctl EXCEPT !.images = im]
        /\ table' = IF ok THEN renderImages(im) ELSE NoTable
  /\ clicked' = NoClick
  /\ UNCHANGED <<appVars, widgetVars>>

\* change of the eye-side select: render()
EyeChange(eye) ==
  /\ ctl.images.stage # "closed"
  /\ ctl.images.inputs < MaxInputs
  /\ eye # ctl.images.eye
  /\ LET im == [ctl.images EXCEPT !.eye = eye, !.inputs = @ + 1]
     IN /\ ctl' = [ctl EXCEPT !.images = im]
        /\ table' = renderImages(im)
  /\ clicked' = NoClick
  /\ UNCHANGED <<appVars, widgetVars>>

\* typing in the search box: the debounced render is scheduled (again)
SearchInput(q) ==
  /\ ctl.images.stage # "closed"
  /\ ctl.images.inputs < MaxInputs
  /\ q # ctl.images.q
  /\ ctl' = [ctl EXCEPT !.images = [@ EXCEPT !.q = q, !.debounce = TRUE, !.inputs = @ + 1]]
  /\ UNCHANGED <<appVars, tableVars, widgetVars>>

\* the debounce timer fires: render()
SearchRender ==
  /\ ctl.images.debounce
  /\ ctl' = [ctl EXCEPT !.images = [@ EXCEPT !.debounce = FALSE]]
  /\ table' = renderImages(ctl.images)
  /\ clicked' = NoClick
  /\ UNCHANGED <<appVars, widgetVars>>

\* a click on the k-th pager item: onPageChange(p) sets currentPage and renders
ImagesPagerClick(k) ==
  /\ table.rendered
  /\ k \in 1..Len(table.pager)
  /\ LET a == table.pager[k]
         calls == onClick(a)
         im == IF calls = <<>> THEN ctl.images
               ELSE [ctl.images EXCEPT !.currentPage = calls[Len(calls)]]
     IN /\ clicked' = [item |-> a, calls |-> calls, happened |-> TRUE]
        /\ ctl' = [ctl EXCEPT !.images = im]
        /\ table' = IF calls = <<>> THEN table ELSE renderImages(im)
  /\ UNCHANGED <<appVars, widgetVars>>

NextImages ==
  \/ ImagesOpen
  \/ \E ok \in BOOLEAN : ImagesLookupSettle(ok)
  \/ \E len \in 0..MaxLen, ok \in BOOLEAN : ImagesLoaded(len, ok)
  \/ \E eye \in EyeValues : EyeChange(eye)
  \/ \E q \in SearchTexts : SearchInput(q)
  \/ SearchRender
  \/ \E k \in 1..(MaxLen + 4) : ImagesPagerClick(k)

SpecImages == Init /\ [][NextImages]_vars

\* C30: on the my-images page, after any pager clicks, eye-side changes and
\* search input, the controller's currentPage is the page the table displays
\* and lies within 1 .. the number of pages of the filtered list.
C30_CurrentPageIsDisplayed ==
  table.rendered =>
    /\ ctl.images.currentPage = table.currentPage
    /\ ctl.images.currentPage \in 1..table.totalPages

(***************************************************************************)
(* pages/doctor-messages.js, second script: the doctor's reviews           *)
(***************************************************************************)
\* switches to the done tab and review submits in one run
MaxTabs == 2
MaxReviews == 1

\* the stored user's account_id, and the doctor_id the backend holds for it
ReviewAccountId == "a3"
ReviewDoctorId == "d7"

\* a request of the page leaves; cb is the callback a lookup carries, doctor_id
\* the id a dependent request carries (None for a request that needs none)
issueReview(rv, api, cb, doctorId) ==
  [rv EXCEPT !.issued = @ + 1,
             !.inflight = @ \cup {[id |-> rv.issued + 1, api |-> api, cb |-> cb, doctor_id |-> doctorId]},
             !.dependent = IF doctorId = None THEN @
                           ELSE @ \cup {[id |-> rv.issued + 1, api |-> api, doctor_id |-> doctorId]}]

\* loadPending(): getPendingReviews needs no id
loadPending(rv) == issueReview(rv, "getPendingReviews", "none", None)

\* loadDone(): nothing without doctorId
loadDone(rv) ==
  IF rv.doctorId = None THEN rv
  ELSE issueReview(rv, "getReviewsByDoctor", "none", rv.doctorId)

\* loadDoctorThen(cb): the callback at once when doctorId is set, the lookup
\* otherwise
loadDoctorThen(rv, cb) ==
  IF rv.doctorId # None
  THEN IF cb = "init" THEN loadPending(rv) ELSE loadDone(rv)
  ELSE issueReview(rv, "getDoctorByAccount", cb, None)

\* a lookup handler that keeps the account id as the doctor id
lookupResolved_AccountId(rv, r, hasParam) ==
  LET known == [rv EXCEPT !.doctorId = ReviewAccountId, !.resolvedIds = @ \cup {ReviewDoctorId}]
  IN IF r.cb = "init" THEN [loadPending(known) EXCEPT !.timer = (@ \/ hasParam)]
     ELSE loadDone(known)

\* the then of the lookup with a doctor_id in the answer: doctorId is set and
\* the callback runs; init's callback loads the pending list and, with an
\* analysis_id in the query string, starts the 300 ms timer of the modal
lookupResolved(rv, r, hasParam) ==
  LET known == [rv EXCEPT !.doctorId = ReviewDoctorId, !.resolvedIds = @ \cup {ReviewDoctorId}]
  IN IF r.cb = "init" THEN [loadPending(known) EXCEPT !.timer = (@ \/ hasParam)]
     ELSE loadDone(known)

\* submitReview(): nothing without an analysis id and doctorId
submitReview(rv) ==
  IF rv.doctorId = None THEN rv
  ELSE issueReview([rv EXCEPT !.submitDisabled = TRUE], "createDoctorReview", "none", rv.doctorId)

\* openReviewModal(analysisId): nothing without doctorId
openReviewModal(rv) ==
  IF rv.doctorId = None THEN rv ELSE [rv EXCEPT !.modal = TRUE]

\* init(): loadDoctorThen with the callback that loads the pending list
ReviewsOpen ==
  /\ ctl.reviews.stage = "closed"
  /\ ctl' = [ctl EXCEPT !.reviews = loadDoctorThen([@ EXCEPT !.stage = "open"], "init")]
  /\ UNCHANGED <<appVars, tableVars, widgetVars>>

\* shown.bs.tab of the done tab: loadDoctorThen(loadDone)
DoneTab ==
  /\ ctl.reviews.stage = "open"
  /\ ctl.reviews.tabs < MaxTabs
  /\ ctl' = [ctl EXCEPT !.reviews = loadDoctorThen([@ EXCEPT !.tabs = @ + 1], "done")]
  /\ UNCHANGED <<appVars, tableVars, widgetVars>>

\* a response arrives, in any order
ReviewsSettle ==
  /\ \E r \in ctl.reviews.inflight, outcome \in {"ok", "none", "rejected"}, hasParam \in BOOLEAN :
       LET rv == [ctl.reviews EXCEPT !.inflight = @ \ {r}] IN
       /\ outcome = "none" => r.api \in {"getDoctorByAccount", "getPendingReviews"}
       /\ hasParam => (r.api = "getDoctorByAccount" /\ r.cb = "init" /\ outcome = "ok")
       /\ ctl' = [ctl EXCEPT !.reviews =
                    IF r.api = "getDoctorByAccount" THEN
                      IF outcome = "ok" THEN lookupResolved(rv, r, hasParam)
                      ELSE [rv EXCEPT !.failedLookup = TRUE]
                    ELSE IF r.api = "getPendingReviews" THEN [rv EXCEPT !.listed = (outcome = "ok")]
                    ELSE IF r.api = "getReviewsByDoctor" THEN rv
                    ELSE IF outcome = "ok"
                         THEN loadDone(loadPending([rv EXCEPT !.modal = FALSE, !.submitDisabled = FALSE]))
                    ELSE [rv EXCEPT !.submitDisabled = FALSE]]
  /\ UNCHANGED <<appVars, tableVars, widgetVars>>

\* a click on a review button of the pending list, or the timer that init
\* started for the analysis of the query string
ReviewOpen(byTimer) ==
  /\ ctl.reviews.stage = "open"
  /\ ~ctl.reviews.modal
  /\ IF byTimer THEN ctl.reviews.timer ELSE ctl.reviews.listed
  /\ ctl' = [ctl EXCEPT !.reviews =
               openReviewModal([@ EXCEPT !.timer = IF byTimer THEN FALSE ELSE @])]
  /\ UNCHANGED <<appVars, tableVars, widgetVars>>

\* a click on the modal's submit button
ReviewSubmit ==
  /\ ctl.reviews.modal
  /\ ~ctl.reviews.submitDisabled
  /\ ctl.reviews.submits < MaxReviews
  /\ ctl' = [ctl EXCEPT !.reviews = submitReview([@ EXCEPT !.submits = @ + 1])]
  /\ UNCHANGED <<appVars, tableVars, widgetVars>>

NextReviews ==
  \/ ReviewsOpen
  \/ DoneTab
  \/ ReviewsSettle
  \/ \E byTimer \in BOOLEAN : ReviewOpen(byTimer)
  \/ ReviewSubmit

SpecReviews == Init /\ [][NextReviews]_vars

MaxTrendChanges == 1

\* what load() of each page requests: after a profile lookup or at once, inside
\* one Promise.all (joint) or each call with its own then and catch
LoadPages ==
  { [name |-> "patient-dashboard", lookup |-> TRUE, joint |-> TRUE,
     resources |-> {"getImagesByPatient", "getReportsByPatient"}],
    [name |-> "doctor-dashboard", lookup |-> TRUE, joint |-> TRUE,
     resources |-> {"getDoctorPerformance", "getPendingReviews", "getReportsByDoctor"}],
    [name |-> "clinic-dashboard", lookup |-> FALSE, joint |-> TRUE,
     resources |-> {"getClinic", "getClinicMembers", "getClinicUsage",
                    "getClinicReportsSummary", "getHighRiskAlerts"}],
    [name |-> "clinic-reports", lookup |-> FALSE, joint |-> FALSE,
     resources |-> {"getClinicReportsSummary", "getClinicScreeningReport"}],
    [name |-> "clinic-analytics", lookup |-> FALSE, joint |-> FALSE,
     resources |-> {"getClinicRiskAggregation", "getClinicAbnormalTrends"}] }

LoadPageOf(name) == CHOOSE pg \in LoadPages : pg.name = name

\* the calls `apis` leave together
issueLoads(ld, apis) ==
  LET RECURSIVE go(_, _)
      go(l, rest) ==
        IF rest = {} THEN l
        ELSE LET api == CHOOSE a \in rest : TRUE
             IN go([l EXCEPT !.issued = @ + 1,
                             !.inflight = @ \cup {[id |-> l.issued + 1, api |-> api]}],
                   rest \ {api})
  IN go(ld, apis)

\* a resource's request settles. Joint: the then of Promise.all writes all
\* results once every call has resolved, its catch runs for the first
\* rejection and nothing is written afterwards. Otherwise the call's own then
\* writes its result and its own catch writes the error in its place
resourceSettled(ld, pg, r, ok) ==
  IF pg.joint THEN
    IF ok THEN LET got == ld.resolved \cup {r.api}
               IN [ld EXCEPT !.resolved = got,
                             !.written = IF got = pg.resources /\ ~ld.rejected THEN got ELSE @]
    ELSE [ld EXCEPT !.rejected = TRUE, !.failed = TRUE]
  ELSE IF ok THEN [ld EXCEPT !.resolved = @ \cup {r.api}, !.written = @ \cup {r.api}]
  ELSE [ld EXCEPT !.rejected = TRUE, !.written = @ \ {r.api}]

\* load() of a page whose stored user has the account (the clinic) it needs
LoadsOpen(name) ==
  /\ ctl.loads.page = "none"
  /\ LET pg == LoadPageOf(name)
     IN ctl' = [ctl EXCEPT !.loads =
                  issueLoads([@ EXCEPT !.page = name],
                             IF pg.lookup THEN {"lookup"} ELSE pg.resources)]
  /\ UNCHANGED <<appVars, tableVars, widgetVars>>

\* a response arrives, in any order: the lookup with a profile (the resources
\* are requested), without one (the page shows zeros) or rejected; a resource
\* resolved or rejected
LoadsSettle ==
  /\ \E r \in ctl.loads.inflight, outcome \in {"ok", "none", "rejected"} :
       LET pg == LoadPageOf(ctl.loads.page)
           ld == [ctl.loads EXCEPT !.inflight = @ \ {r}]
       IN /\ outcome = "none" => r.api = "lookup"
          /\ ctl' = [ctl EXCEPT !.loads =
                       IF r.api = "lookup" THEN
                         IF outcome = "ok" THEN issueLoads(ld, pg.resources)
                         ELSE IF outcome = "none" THEN ld
                         ELSE [ld EXCEPT !.failed = TRUE]
                       ELSE resourceSettled(ld, pg, r, outcome = "ok")]
  /\ UNCHANGED <<appVars, tableVars, widgetVars>>

\* change of the trend-days select on the analytics page: loadTrends()
TrendDaysChange ==
  /\ ctl.loads.page = "clinic-analytics"
  /\ ctl.loads.trendChanges < MaxTrendChanges
  /\ ctl' = [ctl EXCEPT !.loads =
               issueLoads([@ EXCEPT !.trendChanges = @ + 1], {"getClinicAbnormalTrends"})]
  /\ UNCHANGED <<appVars, tableVars, widgetVars>>

NextLoads ==
  \/ \E name \in {pg.name : pg \in LoadPages} : LoadsOpen(name)
  \/ LoadsSettle
  \/ TrendDaysChange

SpecLoads == Init /\ [][NextLoads]_vars

\* C23: on the patient, doctor and clinic dashboards, the clinic reports and
\* the clinic analytics, no result is written to the page before all the
\* resources have resolved, and once one was rejected no result is rendered.
C23_AllOrNothing ==
  ctl.loads.page # "none" =>
    /\ ctl.loads.written # {} => LoadPageOf(ctl.loads.page).resources \subseteq ctl.loads.resolved
    /\ ctl.loads.rejected => ctl.loads.written = {}

====
